---- MODULE Spec2Model ----
(***************************************************************************)
(* MingziApp server: the order lifecycle / inventory engine                *)
(* (server/routes/orders.js, the inventory and receiving-batch routers)    *)
(* and the supplier-invoice reconciliation matcher                         *)
(* over the single shared sqlite3 handle of server/db.js.                  *)
(*                                                                         *)
(* Every request handler is translated statement by statement: one step of *)
(* a handler is one awaited database statement together with the           *)
(* synchronous JavaScript that follows it up to the next await.  The same  *)
(* step relation is run in several ways:                                   *)
(*   Spec, SpecStock, SpecMerge, SpecReview, SpecImport, SpecInvoice,      *)
(*   SpecBatch, SpecAuth - requests one after the other, each              *)
(*               handler run to its end in one action, no statement fails; *)
(*   SpecFail  - as Spec, but one statement of the request may be rejected *)
(*               by the store (the promise of dbRun/dbGet/dbAll rejects);  *)
(*   SpecConc, SpecConcCreate - several requests in flight, their          *)
(*               statements interleaved on the shared handle (each await   *)
(*               yields to the event loop).                                *)
(*                                                                         *)
(* Quantities (qtyOrdered, qtyPicked, stock, movement quantities) are      *)
(* counted in thousandths of a unit, prices and totals in cents, so that   *)
(* the decimal rules of the code are integer arithmetic here.              *)
(***************************************************************************)
EXTENDS Integers, Sequences, FiniteSets, TLC

VARIABLES
  products,             \* products table: id -> row (unit, price, isAvailable, stock)
  orders,               \* orders table: sequence of rows, id = index (AUTOINCREMENT)
  order_items,          \* order_items table: sequence, a deleted row leaves NoRow
  order_change_logs,    \* order_change_logs table: sequence of rows
  inventory_logs,       \* inventory_logs table: sequence of rows
  suppliers,            \* suppliers table: number of rows (ids 1..suppliers)
  receiving_batches,    \* receiving_batches table: sequence of rows
  receiving_batch_items,\* receiving_batch_items table: sequence of rows
  supplier_invoices,    \* supplier_invoices table: sequence of rows
  supplier_invoice_items,\* supplier_invoice_items table: sequence of rows
  inTx,                 \* the shared connection has an open transaction
  snap,                 \* the tables as they were when that transaction began
  reqs                  \* request slots: the handler's position, locals and response

vars == <<products, orders, order_items, order_change_logs, inventory_logs, suppliers,
          receiving_batches, receiving_batch_items, supplier_invoices,
          supplier_invoice_items, inTx, snap, reqs>>

(***************************************************************************)
(* Bounds of the model                                                     *)
(***************************************************************************)
MaxOrders == 2
MaxItems == 2
MaxInvLogs == 2
MaxChangeLogs == 2
MaxStockUnits == 3
MaxSuppliers == 1
MaxBatches == 1
MaxInvoices == 2
MaxInvoiceItems == 3
MaxSlots == 3
MaxStatements == 10

Units(n) == n * 1000

(***************************************************************************)
(* Seed data and vocabularies                                              *)
(***************************************************************************)
ProductIds == {1, 2, 3}

SeedProduct(p) ==
  CASE p = 1 -> [name |-> <<"frozen", "beef">>, unit |-> "kg", price |-> 5230,
                 isAvailable |-> TRUE, stock |-> 0]
    [] p = 2 -> [name |-> <<"spring", "water">>, unit |-> "box", price |-> 4800,
                 isAvailable |-> TRUE, stock |-> 0]
    [] p = 3 -> [name |-> <<"cooking", "oil">>, unit |-> "bucket", price |-> 9650,
                 isAvailable |-> FALSE, stock |-> 0]

boxUnits == {"box", "bucket", "bag"}
allowedStatuses == {"created", "confirmed", "shipped", "completed", "cancelled"}
lockedStatuses == {"shipped", "completed", "cancelled"}

NoRow == [id |-> 0]
NoTables == [none |-> TRUE]

NoRes == [status |-> 0, code |-> "", orderId |-> 0, totalAmount |-> 0, merged |-> FALSE,
          redirectedOrderId |-> 0, insufficient |-> <<>>, items |-> <<>>, invoiceId |-> 0]

httpError(st, cd) == [NoRes EXCEPT !.status = st, !.code = cd]
\* a rejected statement: the sqlite error reaches the express error handler
storeError == httpError(500, "SQLITE_ERROR")
ok(st) == [NoRes EXCEPT !.status = st, !.code = "OK"]

(***************************************************************************)
(* The connection: tables plus the transaction state of the one handle     *)
(***************************************************************************)
Tables ==
  [products |-> products, orders |-> orders, order_items |-> order_items,
   order_change_logs |-> order_change_logs, inventory_logs |-> inventory_logs,
   suppliers |-> suppliers, receiving_batches |-> receiving_batches,
   receiving_batch_items |-> receiving_batch_items,
   supplier_invoices |-> supplier_invoices,
   supplier_invoice_items |-> supplier_invoice_items]

Conn == [t |-> Tables, inTx |-> inTx, snap |-> snap]

Install(c) ==
  /\ products' = c.t.products
  /\ orders' = c.t.orders
  /\ order_items' = c.t.order_items
  /\ order_change_logs' = c.t.order_change_logs
  /\ inventory_logs' = c.t.inventory_logs
  /\ suppliers' = c.t.suppliers
  /\ receiving_batches' = c.t.receiving_batches
  /\ receiving_batch_items' = c.t.receiving_batch_items
  /\ supplier_invoices' = c.t.supplier_invoices
  /\ supplier_invoice_items' = c.t.supplier_invoice_items
  /\ inTx' = c.inTx
  /\ snap' = c.snap

\* what a reader of the database file sees: the last committed tables
Persisted == IF inTx THEN snap ELSE Tables

WithinBounds(c) ==
  /\ Len(c.t.orders) <= MaxOrders
  /\ Len(c.t.order_items) <= MaxItems
  /\ Len(c.t.inventory_logs) <= MaxInvLogs
  /\ Len(c.t.order_change_logs) <= MaxChangeLogs
  /\ c.t.suppliers <= MaxSuppliers
  /\ Len(c.t.receiving_batches) <= MaxBatches
  /\ Len(c.t.supplier_invoices) <= MaxInvoices
  /\ Len(c.t.supplier_invoice_items) <= MaxInvoiceItems
  /\ \A p \in ProductIds : c.t.products[p].stock <= Units(MaxStockUnits)

\* dbRun("BEGIN IMMEDIATE"): sqlite refuses a transaction within a transaction
dbBegin(c, f) ==
  IF f \/ c.inTx THEN [ok |-> FALSE, c |-> c]
  ELSE [ok |-> TRUE, c |-> [c EXCEPT !.inTx = TRUE, !.snap = c.t]]

\* dbRun("COMMIT"): fails when no transaction is active
dbCommit(c, f) ==
  IF f \/ ~c.inTx THEN [ok |-> FALSE, c |-> c]
  ELSE [ok |-> TRUE, c |-> [c EXCEPT !.inTx = FALSE, !.snap = NoTables]]

\* dbRun("ROLLBACK"): undoes whatever transaction is open on the handle
dbRollback(c, f) ==
  IF f \/ ~c.inTx THEN [ok |-> FALSE, c |-> c]
  ELSE [ok |-> TRUE, c |-> [c EXCEPT !.t = c.snap, !.inTx = FALSE, !.snap = NoTables]]

(***************************************************************************)
(* Requests                                                                *)
(***************************************************************************)
NoReq == [op |-> "none", role |-> "none", cust |-> 0, a |-> <<>>, pc |-> "done",
          l |-> <<>>, res |-> NoRes]

Req(o, rl, cu, args, locals) ==
  [op |-> o, role |-> rl, cust |-> cu, a |-> args, pc |-> "start", l |-> locals, res |-> NoRes]

Goto(rq, cn, to) == [r |-> [rq EXCEPT !.pc = to], c |-> cn]
GotoL(rq, cn, to, locals) == [r |-> [rq EXCEPT !.pc = to, !.l = locals], c |-> cn]
Done(rq, cn, response) == [r |-> [rq EXCEPT !.pc = "done", !.res = response], c |-> cn]
\* leave for the handler's catch block, remembering the error to surface
Throw(rq, cn, to, err) == [r |-> [rq EXCEPT !.pc = to, !.res = err], c |-> cn]

\* requireAdmin letting every authenticated caller through
requireAdminAnyRole(r) == r.role \in {"admin", "customer"}

requireAdmin(r) == r.role = "admin"

ProductExists(c, p) == p \in DOMAIN c.t.products
OrderExists(c, o) == o \in 1..Len(c.t.orders)
ItemExists(c, i) == i \in 1..Len(c.t.order_items) /\ c.t.order_items[i] # NoRow

\* the live order_items rows of an order, in id order
ItemsOf(c, o) == SelectSeq(c.t.order_items, LAMBDA row : row # NoRow /\ row.orderId = o)

\* an inventory_logs row; remark carries "Order #<id>" for an outbound movement
InvLog(p, ty, q, o, b, rem) ==
  [productId |-> p, type |-> ty, quantity |-> q, orderId |-> o, batchId |-> b, remark |-> rem]
AddStock(c, p, q) == [c EXCEPT !.t.products[p].stock = @ + q]
\* a movement that is applied to the stock and not recorded
AddInvLogSkipped(c, row) == c

AddInvLog(c, row) == [c EXCEPT !.t.inventory_logs = Append(@, row)]

\* `return next(err)` with the ROLLBACK before it left out
RollbackReturnForgotten(r, c, f) == Done(r, c, r.res)

\* `await dbRun("ROLLBACK"); return next(err)` inside a try block
RollbackReturn(r, c, f) ==
  LET rb == dbRollback(c, f)
  IN IF rb.ok THEN Done(r, rb.c, r.res) ELSE Throw(r, c, "catch", storeError)

\* `catch (err) { await dbRun("ROLLBACK").catch(() => {}); return next(err) }`
CatchRollback(r, c, f) == Done(r, dbRollback(c, f).c, r.res)

(***************************************************************************)
(* PATCH /orders/:id/status                                                *)
(***************************************************************************)
UpdateStatusLocals == [stockDeducted |-> FALSE, items |-> <<>>]

\* SELECT oi.id, oi.productId, oi.qtyPicked, p.stock, p.name
\*   FROM order_items oi JOIN products p ON p.id = oi.productId WHERE oi.orderId = ?
StockRows(c, o) ==
  LET live == SelectSeq(ItemsOf(c, o), LAMBDA row : ProductExists(c, row.productId))
  IN [i \in 1..Len(live) |->
        [id |-> live[i].id, productId |-> live[i].productId, qtyPicked |-> live[i].qtyPicked,
         stock |-> c.t.products[live[i].productId].stock,
         name |-> c.t.products[live[i].productId].name]]

InsufficientLine(it) ==
  [productId |-> it.productId, name |-> it.name, stock |-> it.stock, required |-> it.qtyPicked]

\* the sufficiency loop stopping at its first under-stocked line
InsufficientFirstOnly(items) ==
  LET bad == SelectSeq(items, LAMBDA it : it.qtyPicked > 0 /\ it.stock < it.qtyPicked)
  IN IF bad = <<>> THEN <<>> ELSE <<InsufficientLine(bad[1])>>

\* the lines the sufficiency loop pushes: qty > 0 && item.stock < qty
Insufficient(items) ==
  LET bad == SelectSeq(items, LAMBDA it : it.qtyPicked > 0 /\ it.stock < it.qtyPicked)
  IN [i \in 1..Len(bad) |-> InsufficientLine(bad[i])]

\* the deduction pass without its UPDATE of stockDeducted
setStockDeductedSkipped(c, id) == c

\* UPDATE orders SET stockDeducted = 1 WHERE id = ?
setStockDeducted(c, id) ==
  IF OrderExists(c, id) THEN [c EXCEPT !.t.orders[id].stockDeducted = TRUE] ELSE c

UpdateStatusStep(r, c, f) ==
  LET id == r.a.orderId
      status == r.a.status
      requiresStockDeduction == status \in {"shipped", "completed"}
  IN
  CASE r.pc = "start" ->
         IF ~requireAdmin(r) THEN Done(r, c, httpError(403, "AUTH_FORBIDDEN"))
         ELSE IF status \notin allowedStatuses THEN Done(r, c, httpError(400, "VALIDATION_ERROR"))
         ELSE LET b == dbBegin(c, f)
              IN IF b.ok THEN Goto(r, b.c, "get_order") ELSE Throw(r, c, "catch", storeError)
    [] r.pc = "get_order" ->
         IF f THEN Throw(r, c, "catch", storeError)
         ELSE IF ~OrderExists(c, id) THEN Throw(r, c, "rollback_return", httpError(404, "NOT_FOUND"))
         ELSE LET row == c.t.orders[id]
                  l == [r.l EXCEPT !.stockDeducted = row.stockDeducted]
              IN IF requiresStockDeduction /\ row.stockDeducted THEN GotoL(r, c, "update_status", l)
                 ELSE IF requiresStockDeduction THEN GotoL(r, c, "get_items", l)
                 ELSE GotoL(r, c, "update_status", l)
    [] r.pc = "get_items" ->
         IF f THEN Throw(r, c, "catch", storeError)
         ELSE LET items == StockRows(c, id)
                  insufficient == Insufficient(items)
                  todo == SelectSeq(items, LAMBDA it : it.qtyPicked > 0)
              IN IF insufficient # <<>>
                 THEN Throw(r, c, "rollback_return",
                            [httpError(400, "STOCK_INSUFFICIENT") EXCEPT !.insufficient = insufficient])
                 ELSE GotoL(r, c, IF todo = <<>> THEN "set_deducted" ELSE "deduct",
                            [r.l EXCEPT !.items = todo])
    [] r.pc = "deduct" ->
         IF f THEN Throw(r, c, "catch", storeError)
         ELSE Goto(r, AddStock(c, Head(r.l.items).productId, 0 - Head(r.l.items).qtyPicked), "log_out")
    [] r.pc = "log_out" ->
         IF f THEN Throw(r, c, "catch", storeError)
         ELSE LET it == Head(r.l.items)
                  rest == Tail(r.l.items)
              IN GotoL(r, AddInvLog(c, InvLog(it.productId, "out", it.qtyPicked, id, 0, 0)),
                       IF rest = <<>> THEN "set_deducted" ELSE "deduct",
                       [r.l EXCEPT !.items = rest])
    [] r.pc = "set_deducted" ->
         IF f THEN Throw(r, c, "catch", storeError)
         ELSE Goto(r, setStockDeducted(c, id), "update_status")
    [] r.pc = "update_status" ->
         IF f THEN Throw(r, c, "catch", storeError)
         ELSE Goto(r, IF OrderExists(c, id) THEN [c EXCEPT !.t.orders[id].status = status] ELSE c,
                   "commit")
    [] r.pc = "commit" ->
         LET cm == dbCommit(c, f)
         IN IF cm.ok THEN Goto(r, cm.c, "fetch") ELSE Throw(r, c, "catch", storeError)
    [] r.pc = "fetch" ->
         IF f THEN Throw(r, c, "catch", storeError)
         ELSE Done(r, c, [ok(200) EXCEPT !.orderId = id])
    [] r.pc = "rollback_return" -> RollbackReturn(r, c, f)
    [] r.pc = "catch" -> CatchRollback(r, c, f)

(***************************************************************************)
(* Inventory router: POST /inbound, /returns, /damages, PATCH /:productId  *)
(***************************************************************************)
\* parsePositiveInt: Number.isInteger(n) && n > 0 (quantities arrive in whole units)
parsePositiveInt(n) == n \in Nat /\ n > 0

InventoryStep(r, c, f) ==
  LET p == r.a.productId
      q == Units(r.a.quantity)
  IN
  CASE r.pc = "start" ->
         IF ~requireAdmin(r) THEN Done(r, c, httpError(403, "AUTH_FORBIDDEN"))
         ELSE IF ~parsePositiveInt(p) \/ ~parsePositiveInt(r.a.quantity)
              THEN Done(r, c, httpError(400, "VALIDATION_ERROR"))
         ELSE LET b == dbBegin(c, f)
              IN IF b.ok THEN Goto(r, b.c, "find") ELSE Throw(r, c, "catch", storeError)
    [] r.pc = "find" ->
         IF f THEN Throw(r, c, "catch", storeError)
         ELSE IF ~ProductExists(c, p) THEN Throw(r, c, "catch", httpError(404, "NOT_FOUND"))
         ELSE IF r.op = "damages" /\ c.t.products[p].stock < q
              THEN Throw(r, c, "rollback_return", httpError(400, "STOCK_INSUFFICIENT"))
         ELSE Goto(r, c, "update_stock")
    [] r.pc = "update_stock" ->
         IF f THEN Throw(r, c, "catch", storeError)
         ELSE Goto(r, IF ProductExists(c, p)
                      THEN AddStock(c, p, IF r.op = "damages" THEN 0 - q ELSE q) ELSE c,
                   "insert_log")
    [] r.pc = "insert_log" ->
         IF f THEN Throw(r, c, "catch", storeError)
         ELSE Goto(r, AddInvLog(c, InvLog(p, CASE r.op = "inbound" -> "in"
                                              [] r.op = "returns" -> "return"
                                              [] r.op = "damages" -> "damage",
                                          q, 0, 0, r.a.remark)),
                   "commit")
    [] r.pc = "commit" ->
         LET cm == dbCommit(c, f)
         IN IF cm.ok THEN Goto(r, cm.c, "fetch") ELSE Throw(r, c, "catch", storeError)
    [] r.pc = "fetch" ->
         IF f THEN Throw(r, c, "catch", storeError) ELSE Done(r, c, ok(201))
    [] r.pc = "rollback_return" -> RollbackReturn(r, c, f)
    [] r.pc = "catch" -> CatchRollback(r, c, f)

\* PATCH /inventory/:productId with a stock value (thousandths of a unit)
SetStockStep(r, c, f) ==
  LET p == r.a.productId
  IN
  CASE r.pc = "start" ->
         IF ~requireAdmin(r) THEN Done(r, c, httpError(403, "AUTH_FORBIDDEN"))
         ELSE IF ~parsePositiveInt(p) \/ r.a.stock < 0
              THEN Done(r, c, httpError(400, "VALIDATION_ERROR"))
         ELSE IF f THEN Done(r, c, storeError)
         ELSE IF ~ProductExists(c, p) THEN Done(r, c, httpError(404, "NOT_FOUND"))
         ELSE Goto(r, [c EXCEPT !.t.products[p].stock = r.a.stock], "fetch")
    [] r.pc = "fetch" ->
         IF f THEN Done(r, c, storeError) ELSE Done(r, c, ok(200))

(***************************************************************************)
(* Products router: PATCH /products/:id                                    *)
(* (name, unit and price; the warehouseType column is not read by any      *)
(* other handler and is left out of the product row)                       *)
(***************************************************************************)
\* the fields the body carries: `undefined` is has* = FALSE; an empty string
\* for the unit is "", a price that is not a number is priceIsNumber = FALSE
UpdateProductStep(r, c, f) ==
  LET productId == r.a.productId
      fields == r.a.hasName \/ r.a.hasUnit \/ r.a.hasPrice
  IN
  CASE r.pc = "start" ->
         IF ~requireAdmin(r) THEN Done(r, c, httpError(403, "AUTH_FORBIDDEN"))
         ELSE IF productId <= 0 THEN Done(r, c, httpError(400, "VALIDATION_ERROR"))
         ELSE IF r.a.hasName /\ r.a.name = <<>> THEN Done(r, c, httpError(400, "VALIDATION_ERROR"))
         ELSE IF r.a.hasUnit /\ r.a.unit = "" THEN Done(r, c, httpError(400, "VALIDATION_ERROR"))
         ELSE IF r.a.hasPrice /\ ~r.a.priceIsNumber
              THEN Done(r, c, httpError(400, "VALIDATION_ERROR"))
         ELSE IF ~fields THEN Done(r, c, httpError(400, "VALIDATION_ERROR"))
         ELSE IF f THEN Done(r, c, storeError)
         \* this.changes === 0
         ELSE IF ~ProductExists(c, productId) THEN Done(r, c, httpError(404, "NOT_FOUND"))
         ELSE Goto(r, [c EXCEPT !.t.products[productId].name =
                                   IF r.a.hasName THEN r.a.name ELSE @,
                                !.t.products[productId].unit =
                                   IF r.a.hasUnit THEN r.a.unit ELSE @,
                                !.t.products[productId].price =
                                   IF r.a.hasPrice THEN r.a.price ELSE @],
                   "fetch")
    [] r.pc = "fetch" ->
         IF f THEN Done(r, c, storeError) ELSE Done(r, c, ok(200))

(***************************************************************************)
(* Orders router: shared helpers                                           *)
(***************************************************************************)
\* A delivery date as the client writes it: a calendar day, a time of day and
\* a UTC offset in hours (day-only strings have hour 0, offset 0), or garbage.
\* Date.parse gives the instant; the getUTC* calls truncate it to the UTC day.
validateDeliveryDate(d) == d.day + ((d.hour - d.offset) \div 24)

\* validateQty(unit, qty): "" for null, else the rule that failed
validateQty(unit, qty) ==
  IF qty <= 0 THEN "must be > 0"
  ELSE IF unit = "kg" THEN (IF qty % 10 # 0 THEN "kg allows at most 2 decimals" ELSE "")
  ELSE IF unit \in boxUnits THEN (IF qty % 1000 # 0 THEN "must be a positive integer" ELSE "")
  ELSE ""

\* Math.round(x * 100) / 100 of a sum of quantity * unitPrice, in cents:
\* thousandths * cents is 1/1000 cent, Math.round rounds half up
RoundCents(x) == (x + 500) \div 1000

LineAmount(row) == row.qtyOrdered * row.unitPrice

\* rows.reduce((sum, row) => sum + qtyOrdered * unitPrice, 0)
SumLines(rows) ==
  LET sum[i \in 0..Len(rows)] == IF i = 0 THEN 0 ELSE sum[i - 1] + LineAmount(rows[i])
  IN sum[Len(rows)]

\* recalcOrderTotal pricing each row at the product's current price
recalcSelectLivePrice(c, orderId) ==
  RoundCents(SumLines([i \in 1..Len(ItemsOf(c, orderId)) |->
                         [ItemsOf(c, orderId)[i] EXCEPT
                            !.unitPrice = c.t.products[ItemsOf(c, orderId)[i].productId].price]]))

\* recalcOrderTotal, its SELECT: the rounded sum over the order's current rows
recalcSelect(c, orderId) == RoundCents(SumLines(ItemsOf(c, orderId)))

\* recalcOrderTotal without its UPDATE
recalcUpdateSkipped(c, orderId, total) == c

\* recalcOrderTotal, its UPDATE orders SET totalAmount = ? WHERE id = ?
recalcUpdate(c, orderId, total) ==
  IF OrderExists(c, orderId) THEN [c EXCEPT !.t.orders[orderId].totalAmount = total] ELSE c

\* lastModifiedAt and tripNumber are NULL (0) until a statement sets them
OrderRow(cust, date, total) ==
  [customerId |-> cust, deliveryDate |-> date, status |-> "created",
   totalAmount |-> total, stockDeducted |-> FALSE, pendingReview |-> FALSE,
   lastModifiedAt |-> 0, tripNumber |-> 0]

InsertOrder(c, row) == [c EXCEPT !.t.orders = Append(@, row)]

\* INSERT INTO order_items (..., qtyPicked, ..., status) VALUES (..., 0, ..., 'created');
\* picked and outOfStock take their column default 0
ItemRow(c, orderId, productId, qty, price) ==
  [id |-> Len(c.t.order_items) + 1, orderId |-> orderId, productId |-> productId,
   qtyOrdered |-> qty, qtyPicked |-> 0, unitPrice |-> price,
   status |-> "created", picked |-> FALSE, outOfStock |-> FALSE]

InsertItem(c, orderId, productId, qty, price) ==
  [c EXCEPT !.t.order_items = Append(@, ItemRow(c, orderId, productId, qty, price))]

\* const stamp = new Date().toISOString(): the clock moves on between two
\* requests served one after the other, so the stamp is the ordinal of the
\* change being recorded
stamp(c) == Len(c.t.order_change_logs) + 1

\* markOrderPending, first statement
markPendingUpdate(c, orderId) ==
  IF OrderExists(c, orderId)
  THEN [c EXCEPT !.t.orders[orderId].pendingReview = TRUE,
                 !.t.orders[orderId].lastModifiedAt = stamp(c)]
  ELSE c

\* markOrderPending, second statement: the row's type is the literal 'change'
markPendingLog(c, orderId, detail) ==
  [c EXCEPT !.t.order_change_logs = Append(@, [orderId |-> orderId, type |-> "change",
                                                detail |-> detail])]

\* createFollowupOrder dating the new order a day later
createFollowupOrderNextDay(c, orderRow) ==
  InsertOrder(c, OrderRow(orderRow.customerId, orderRow.deliveryDate + 1, 0))

\* createFollowupOrder
createFollowupOrder(c, orderRow) ==
  InsertOrder(c, OrderRow(orderRow.customerId, orderRow.deliveryDate, 0))

\* requireEditableOrder letting a cancelled order through
requireEditableOrderButCancelled(status) == status \notin {"shipped", "completed"}

requireEditableOrder(status) == status \notin lockedStatuses

(***************************************************************************)
(* POST /orders                                                            *)
(***************************************************************************)
CreateOrderLocals ==
  [existingOrderId |-> 0, customerId |-> 0, date |-> 0, validatedItems |-> <<>>,
   totalAmount |-> 0, orderId |-> 0, todo |-> <<>>, total |-> 0]

\* the lookup for an order to merge into, without its status filter
OpenOrderForAnyStatus(c, customerId, date) ==
  LET hits == {o \in 1..Len(c.t.orders) :
                 /\ c.t.orders[o].customerId = customerId
                 /\ c.t.orders[o].deliveryDate = date}
  IN IF hits = {} THEN 0 ELSE CHOOSE o \in hits : \A x \in hits : o <= x

\* SELECT id FROM orders WHERE customerId = ? AND status IN ('created','confirmed')
\*   AND deliveryDate = ? ORDER BY id ASC LIMIT 1        (0: no row)
OpenOrderFor(c, customerId, date) ==
  LET hits == {o \in 1..Len(c.t.orders) :
                 /\ c.t.orders[o].customerId = customerId
                 /\ c.t.orders[o].status \in {"created", "confirmed"}
                 /\ c.t.orders[o].deliveryDate = date}
  IN IF hits = {} THEN 0 ELSE CHOOSE o \in hits : \A x \in hits : o <= x

\* steps 4 and 5 of the handler: fetch the products, validate, snapshot the price
FetchAndValidate(r, c, f, l) ==
  LET items == r.a.items
      missing == \E i \in 1..Len(items) : ~ProductExists(c, items[i].productId)
      prod(i) == c.t.products[items[i].productId]
      unavailable == \E i \in 1..Len(items) : ~prod(i).isAvailable
      \* the loop returns at the first offending line: availability, then quantity
      firstBad == CHOOSE i \in 1..Len(items) :
                    /\ ~prod(i).isAvailable \/ validateQty(prod(i).unit, items[i].qtyOrdered) # ""
                    /\ \A j \in 1..(i - 1) :
                         prod(j).isAvailable /\ validateQty(prod(j).unit, items[j].qtyOrdered) = ""
      anyBad == \E i \in 1..Len(items) :
                  ~prod(i).isAvailable \/ validateQty(prod(i).unit, items[i].qtyOrdered) # ""
      validatedItems == [i \in 1..Len(items) |->
                           [productId |-> items[i].productId, qtyOrdered |-> items[i].qtyOrdered,
                            unitPrice |-> prod(i).price]]
  IN IF f THEN Done(r, c, storeError)
     ELSE IF missing THEN Done(r, c, httpError(400, "VALIDATION_ERROR"))
     ELSE IF anyBad
          THEN Done(r, c, httpError(400, IF ~prod(firstBad).isAvailable
                                         THEN "PRODUCT_UNAVAILABLE" ELSE "INVALID_QUANTITY"))
     ELSE GotoL(r, c, "begin",
                [l EXCEPT !.validatedItems = validatedItems,
                          !.totalAmount = RoundCents(SumLines(validatedItems))])

CreateOrderStep(r, c, f) ==
  LET l == r.l IN
  CASE r.pc = "start" ->
         LET effectiveCustomerId ==
               IF r.role = "admin" /\ r.a.customerId # 0 THEN r.a.customerId ELSE r.cust
             date == validateDeliveryDate(r.a.deliveryDate)
             l1 == [l EXCEPT !.customerId = effectiveCustomerId, !.date = date]
         IN IF r.a.items = <<>> THEN Done(r, c, httpError(400, "VALIDATION_ERROR"))
            ELSE IF \E i \in 1..Len(r.a.items) : r.a.items[i].productId <= 0
                 THEN Done(r, c, httpError(400, "VALIDATION_ERROR"))
            ELSE IF ~r.a.deliveryDate.valid THEN Done(r, c, httpError(400, "VALIDATION_ERROR"))
            ELSE IF effectiveCustomerId <= 0 THEN Done(r, c, httpError(400, "VALIDATION_ERROR"))
            ELSE IF r.role # "admin"     \* shouldAutoMerge
                 THEN IF f THEN Done(r, c, storeError)
                      ELSE GotoL(r, c, "get_products",
                                 [l1 EXCEPT !.existingOrderId = OpenOrderFor(c, effectiveCustomerId, date)])
                 ELSE FetchAndValidate(r, c, f, l1)
    [] r.pc = "get_products" -> FetchAndValidate(r, c, f, l)
    [] r.pc = "begin" ->
         \* outside the inner try: a failed BEGIN surfaces without a ROLLBACK
         LET b == dbBegin(c, f)
         IN IF ~b.ok THEN Done(r, c, storeError)
            ELSE IF l.existingOrderId # 0
                 THEN GotoL(r, b.c, "insert_item",
                            [l EXCEPT !.orderId = l.existingOrderId, !.todo = l.validatedItems])
                 ELSE Goto(r, b.c, "insert_order")
    [] r.pc = "insert_order" ->
         IF f THEN Throw(r, c, "catch", storeError)
         ELSE GotoL(r, InsertOrder(c, OrderRow(l.customerId, l.date, l.totalAmount)), "insert_item",
                    [l EXCEPT !.orderId = Len(c.t.orders) + 1, !.todo = l.validatedItems])
    [] r.pc = "insert_item" ->
         IF f THEN Throw(r, c, "catch", storeError)
         ELSE LET it == Head(l.todo)
                  rest == Tail(l.todo)
              IN GotoL(r, InsertItem(c, l.orderId, it.productId, it.qtyOrdered, it.unitPrice),
                       IF rest = <<>> THEN "recalc_select" ELSE "insert_item",
                       [l EXCEPT !.todo = rest])
    [] r.pc = "recalc_select" ->
         IF f THEN Throw(r, c, "catch", storeError)
         ELSE GotoL(r, c, "recalc_update", [l EXCEPT !.total = recalcSelect(c, l.orderId)])
    [] r.pc = "recalc_update" ->
         IF f THEN Throw(r, c, "catch", storeError)
         ELSE Goto(r, recalcUpdate(c, l.orderId, l.total), "mark_pending")
    [] r.pc = "mark_pending" ->
         IF f THEN Throw(r, c, "catch", storeError)
         ELSE Goto(r, markPendingUpdate(c, l.orderId), "insert_log")
    [] r.pc = "insert_log" ->
         IF f THEN Throw(r, c, "catch", storeError)
         ELSE Goto(r, markPendingLog(c, l.orderId, r.a.items), "commit")
    [] r.pc = "commit" ->
         LET cm == dbCommit(c, f)
         IN IF ~cm.ok THEN Throw(r, c, "catch", storeError)
            ELSE Done(r, cm.c, [ok(IF l.existingOrderId # 0 THEN 200 ELSE 201) EXCEPT
                                  !.orderId = l.orderId, !.totalAmount = l.total,
                                  !.merged = (l.existingOrderId # 0)])
    [] r.pc = "catch" -> CatchRollback(r, c, f)

(***************************************************************************)
(* POST /orders/:id/items, PATCH /orders/items/:id, DELETE /orders/items/:id *)
(* None of the three opens a transaction; their catch is `next(err)`.      *)
(***************************************************************************)
ItemOpLocals ==
  [qty |-> 0, price |-> 0, customerId |-> 0, deliveryDate |-> 0, targetOrderId |-> 0,
   redirectedOrderId |-> 0, parentOrderId |-> 0, total |-> 0]

\* the tail shared by the three handlers: recalcOrderTotal, fetchOrderWithItems
RecalcAndFetch(r, c, f, orderId, res) ==
  CASE r.pc = "recalc_select" ->
         IF f THEN Done(r, c, storeError)
         ELSE GotoL(r, c, "recalc_update", [r.l EXCEPT !.total = recalcSelect(c, orderId)])
    [] r.pc = "recalc_update" ->
         IF f THEN Done(r, c, storeError)
         ELSE Goto(r, recalcUpdate(c, orderId, r.l.total), "fetch")
    [] r.pc = "fetch" ->
         IF f THEN Done(r, c, storeError) ELSE Done(r, c, res)

AddItemStep(r, c, f) ==
  LET l == r.l
      orderId == r.a.orderId
      productId == r.a.productId
  IN
  CASE r.pc = "start" ->
         IF ~requireAdmin(r) THEN Done(r, c, httpError(403, "AUTH_FORBIDDEN"))
         ELSE IF orderId <= 0 \/ productId <= 0 THEN Done(r, c, httpError(400, "VALIDATION_ERROR"))
         ELSE IF f THEN Done(r, c, storeError)
         ELSE IF ~ProductExists(c, productId) THEN Done(r, c, httpError(404, "NOT_FOUND"))
         ELSE IF validateQty(c.t.products[productId].unit, r.a.qtyOrdered) # ""
              THEN Done(r, c, httpError(400, "INVALID_QUANTITY"))
         ELSE GotoL(r, c, "get_order",
                    [l EXCEPT !.qty = r.a.qtyOrdered,
                              !.price = IF r.a.hasPrice THEN r.a.unitPrice
                                        ELSE c.t.products[productId].price])
    [] r.pc = "get_order" ->
         IF f THEN Done(r, c, storeError)
         ELSE IF ~OrderExists(c, orderId) THEN Done(r, c, httpError(404, "NOT_FOUND"))
         ELSE LET orderRow == c.t.orders[orderId]
                  l1 == [l EXCEPT !.customerId = orderRow.customerId,
                                  !.deliveryDate = orderRow.deliveryDate,
                                  !.targetOrderId = orderId]
              IN IF orderRow.status \in lockedStatuses
                 THEN GotoL(r, c, "followup", l1)
                 ELSE GotoL(r, c, "insert_item", l1)
    [] r.pc = "followup" ->
         IF f THEN Done(r, c, storeError)
         ELSE GotoL(r, createFollowupOrder(c, l), "insert_item",
                    [l EXCEPT !.targetOrderId = Len(c.t.orders) + 1,
                              !.redirectedOrderId = Len(c.t.orders) + 1])
    [] r.pc = "insert_item" ->
         IF f THEN Done(r, c, storeError)
         ELSE Goto(r, InsertItem(c, l.targetOrderId, productId, l.qty, l.price), "recalc_select")
    [] OTHER ->
         RecalcAndFetch(r, c, f, l.targetOrderId,
                        [ok(201) EXCEPT !.orderId = l.targetOrderId,
                                        !.redirectedOrderId = l.redirectedOrderId])

\* fetchOrderItemDetail: the item joined with its order (and, loosely, its product)
ItemDetail(c, itemId) ==
  LET row == c.t.order_items[itemId]
  IN [orderStatus |-> c.t.orders[row.orderId].status, parentOrderId |-> row.orderId,
      unit |-> IF ProductExists(c, row.productId) THEN c.t.products[row.productId].unit ELSE "null"]

ItemDetailExists(c, itemId) ==
  ItemExists(c, itemId) /\ OrderExists(c, c.t.order_items[itemId].orderId)

EditItemStep(r, c, f) ==
  LET l == r.l
      itemId == r.a.itemId
  IN
  CASE r.pc = "start" ->
         IF ~requireAdmin(r) THEN Done(r, c, httpError(403, "AUTH_FORBIDDEN"))
         ELSE IF itemId <= 0 THEN Done(r, c, httpError(400, "VALIDATION_ERROR"))
         ELSE IF ~r.a.hasQty /\ ~r.a.hasPrice THEN Done(r, c, httpError(400, "VALIDATION_ERROR"))
         ELSE IF f THEN Done(r, c, storeError)
         ELSE IF ~ItemDetailExists(c, itemId) THEN Done(r, c, httpError(404, "NOT_FOUND"))
         ELSE LET detail == ItemDetail(c, itemId)
              IN IF ~requireEditableOrder(detail.orderStatus)
                 THEN Done(r, c, httpError(409, "ORDER_LOCKED"))
                 ELSE IF r.a.hasQty /\ validateQty(detail.unit, r.a.qtyOrdered) # ""
                 THEN Done(r, c, httpError(400, "INVALID_QUANTITY"))
                 ELSE GotoL(r, c, "update", [l EXCEPT !.parentOrderId = detail.parentOrderId])
    [] r.pc = "update" ->
         IF f THEN Done(r, c, storeError)
         ELSE Goto(r, IF ItemExists(c, itemId)
                      THEN [c EXCEPT !.t.order_items[itemId].qtyOrdered =
                                        IF r.a.hasQty THEN r.a.qtyOrdered ELSE @,
                                     !.t.order_items[itemId].unitPrice =
                                        IF r.a.hasPrice THEN r.a.unitPrice ELSE @]
                      ELSE c,
                   "recalc_select")
    [] OTHER ->
         RecalcAndFetch(r, c, f, l.parentOrderId, [ok(200) EXCEPT !.orderId = l.parentOrderId])

DeleteItemStep(r, c, f) ==
  LET l == r.l
      itemId == r.a.itemId
  IN
  CASE r.pc = "start" ->
         IF ~requireAdmin(r) THEN Done(r, c, httpError(403, "AUTH_FORBIDDEN"))
         ELSE IF itemId <= 0 THEN Done(r, c, httpError(400, "VALIDATION_ERROR"))
         ELSE IF f THEN Done(r, c, storeError)
         ELSE IF ~ItemDetailExists(c, itemId) THEN Done(r, c, httpError(404, "NOT_FOUND"))
         ELSE LET detail == ItemDetail(c, itemId)
              IN IF ~requireEditableOrder(detail.orderStatus)
                 THEN Done(r, c, httpError(409, "ORDER_LOCKED"))
                 ELSE GotoL(r, c, "delete", [l EXCEPT !.parentOrderId = detail.parentOrderId])
    [] r.pc = "delete" ->
         IF f THEN Done(r, c, storeError)
         ELSE Goto(r, IF ItemExists(c, itemId)
                      THEN [c EXCEPT !.t.order_items[itemId] = NoRow] ELSE c,
                   "recalc_select")
    [] OTHER ->
         RecalcAndFetch(r, c, f, l.parentOrderId, [ok(200) EXCEPT !.orderId = l.parentOrderId])

(***************************************************************************)
(* PATCH /orders/items/:id/status: the picking flags of a line.  The route *)
(* sits behind requireAuth only; its one UPDATE runs without a transaction.*)
(***************************************************************************)
\* the picking update that also books the ordered quantity as picked
itemStatusUpdateWithQty(row, a) ==
  [row EXCEPT !.picked = IF a.hasPicked THEN a.picked ELSE @,
              !.outOfStock = IF a.hasOutOfStock THEN a.outOfStock ELSE @,
              !.qtyPicked = IF a.hasPicked /\ a.picked THEN row.qtyOrdered ELSE @,
              !.status = IF a.hasOutOfStock
                         THEN (IF a.outOfStock THEN "out_of_stock" ELSE "created")
                         ELSE IF a.hasPicked /\ a.picked THEN "picked" ELSE @]

\* UPDATE order_items SET <updates> WHERE id = ?: of two assignments to
\* status in one UPDATE the rightmost, the one outOfStock pushed, is applied
itemStatusUpdate(row, a) ==
  [row EXCEPT !.picked = IF a.hasPicked THEN a.picked ELSE @,
              !.outOfStock = IF a.hasOutOfStock THEN a.outOfStock ELSE @,
              !.status = IF a.hasOutOfStock
                         THEN (IF a.outOfStock THEN "out_of_stock" ELSE "created")
                         ELSE IF a.hasPicked /\ a.picked THEN "picked" ELSE @]

ItemStatusStep(r, c, f) ==
  LET itemId == r.a.itemId
  IN
  CASE r.pc = "start" ->
         IF itemId <= 0 THEN Done(r, c, httpError(400, "VALIDATION_ERROR"))
         ELSE IF ~r.a.hasPicked /\ ~r.a.hasOutOfStock
              THEN Done(r, c, httpError(400, "VALIDATION_ERROR"))
         ELSE IF f THEN Done(r, c, storeError)
         \* this.changes === 0
         ELSE IF ~ItemExists(c, itemId) THEN Done(r, c, httpError(404, "NOT_FOUND"))
         ELSE Goto(r, [c EXCEPT !.t.order_items[itemId] = itemStatusUpdate(@, r.a)], "fetch")
    [] r.pc = "fetch" ->
         IF f THEN Done(r, c, storeError) ELSE Done(r, c, ok(200))

(***************************************************************************)
(* POST /backup/import carrying only the orderItems table                  *)
(* (importTable skips every table the dump leaves out or leaves empty)     *)
(***************************************************************************)
ImportLocals == [todo |-> <<>>]

ImportItemsStep(r, c, f) ==
  CASE r.pc = "start" ->
         IF ~requireAdmin(r) THEN Done(r, c, httpError(403, "AUTH_FORBIDDEN"))
         ELSE IF r.a.rows = <<>> THEN Done(r, c, ok(200))
         ELSE IF f THEN Done(r, c, storeError)
         \* DELETE FROM order_items: the AUTOINCREMENT counter stays
         ELSE GotoL(r, [c EXCEPT !.t.order_items = [i \in 1..Len(@) |-> NoRow]], "insert_row",
                    [r.l EXCEPT !.todo = r.a.rows])
    [] r.pc = "insert_row" ->
         LET row == Head(r.l.todo)
             rest == Tail(r.l.todo)
             n == Len(c.t.order_items)
             grown == [i \in 1..(IF row.id > n THEN row.id ELSE n) |->
                         IF i = row.id THEN row ELSE IF i <= n THEN c.t.order_items[i] ELSE NoRow]
         IN IF f \/ ItemExists(c, row.id) THEN Done(r, c, storeError)
            ELSE IF rest = <<>> THEN Done(r, [c EXCEPT !.t.order_items = grown], ok(200))
            ELSE GotoL(r, [c EXCEPT !.t.order_items = grown], "insert_row",
                       [r.l EXCEPT !.todo = rest])

(***************************************************************************)
(* GET /orders/pending/changes, PATCH /orders/:id/review and               *)
(* PATCH /orders/:id/trip                                                  *)
(***************************************************************************)
\* the json_group_array sub-select: the change-log rows of an order
ChangesOf(c, o) ==
  LET logs == c.t.order_change_logs
      RECURSIVE Scan(_)
      Scan(n) == IF n = 0 THEN <<>>
                 ELSE IF logs[n].orderId = o
                      THEN Append(Scan(n - 1), [id |-> n, detail |-> logs[n].detail])
                      ELSE Scan(n - 1)
  IN Scan(Len(logs))

\* WHERE o.pendingReview = 1 AND o.status IN ('created','confirmed')
PendingFilter(row) == row.pendingReview /\ row.status \in {"created", "confirmed"}

\* ORDER BY o.lastModifiedAt DESC (rows with equal stamps come in rowid order)
RECURSIVE OrderByLastModifiedDesc(_, _)
OrderByLastModifiedDesc(c, ids) ==
  IF ids = {} THEN <<>>
  ELSE LET first == CHOOSE o \in ids : \A x \in ids :
                      \/ c.t.orders[o].lastModifiedAt > c.t.orders[x].lastModifiedAt
                      \/ c.t.orders[o].lastModifiedAt = c.t.orders[x].lastModifiedAt /\ o <= x
       IN <<[id |-> first, status |-> c.t.orders[first].status,
             lastModifiedAt |-> c.t.orders[first].lastModifiedAt,
             changes |-> ChangesOf(c, first)]>>
          \o OrderByLastModifiedDesc(c, ids \ {first})

PendingChangesStep(r, c, f) ==
  IF ~requireAdmin(r) THEN Done(r, c, httpError(403, "AUTH_FORBIDDEN"))
  ELSE IF f THEN Done(r, c, storeError)
  ELSE Done(r, c, [ok(200) EXCEPT !.items =
         OrderByLastModifiedDesc(c, {o \in 1..Len(c.t.orders) : PendingFilter(c.t.orders[o])})])

\* clearOrderPending that also empties the order's change log
clearOrderPendingAndLogs(c, orderId) ==
  IF OrderExists(c, orderId)
  THEN [c EXCEPT !.t.orders[orderId].pendingReview = FALSE,
                 !.t.order_change_logs = SelectSeq(@, LAMBDA row : row.orderId # orderId)]
  ELSE c

\* UPDATE orders SET pendingReview = 0 WHERE id = ?
clearOrderPending(c, orderId) ==
  IF OrderExists(c, orderId) THEN [c EXCEPT !.t.orders[orderId].pendingReview = FALSE] ELSE c

ReviewStep(r, c, f) ==
  IF ~requireAdmin(r) THEN Done(r, c, httpError(403, "AUTH_FORBIDDEN"))
  ELSE IF r.a.orderId <= 0 THEN Done(r, c, httpError(400, "VALIDATION_ERROR"))
  ELSE IF f THEN Done(r, c, storeError)
  ELSE Done(r, clearOrderPending(c, r.a.orderId), [ok(200) EXCEPT !.orderId = r.a.orderId])

TripStep(r, c, f) ==
  CASE r.pc = "start" ->
         IF ~requireAdmin(r) THEN Done(r, c, httpError(403, "AUTH_FORBIDDEN"))
         ELSE IF f THEN Done(r, c, storeError)
         ELSE IF ~OrderExists(c, r.a.orderId) THEN Done(r, c, httpError(404, "NOT_FOUND"))
         ELSE Goto(r, [c EXCEPT !.t.orders[r.a.orderId].tripNumber = r.a.tripNumber], "fetch")
    [] r.pc = "fetch" ->
         IF f THEN Done(r, c, storeError)
         ELSE Done(r, c, [ok(200) EXCEPT !.orderId = r.a.orderId])

(***************************************************************************)
(* POST /suppliers and POST /receiving-batches                             *)
(***************************************************************************)
CreateSupplierStep(r, c, f) ==
  CASE r.pc = "start" ->
         IF ~requireAdmin(r) THEN Done(r, c, httpError(403, "AUTH_FORBIDDEN"))
         ELSE IF f THEN Done(r, c, storeError)
         ELSE Goto(r, [c EXCEPT !.t.suppliers = @ + 1], "fetch")
    [] r.pc = "fetch" ->
         IF f THEN Done(r, c, storeError) ELSE Done(r, c, ok(201))

CreateBatchLocals == [batchId |-> 0, seq |-> 0, todo |-> <<>>]

\* the instant a received date denotes, in hours (new Date(receivedDate))
ParsedInstant(d) == d.day * 24 + d.hour - d.offset

\* the YYYYMMDD of batchNo: the get* calls read the date in the server's zone (UTC here)
BatchDay(d) == ParsedInstant(d) \div 24

CreateBatchStep(r, c, f) ==
  LET l == r.l
      supplierId == r.a.supplierId
  IN
  CASE r.pc = "start" ->
         IF ~requireAdmin(r) THEN Done(r, c, httpError(403, "AUTH_FORBIDDEN"))
         ELSE IF supplierId <= 0 \/ ~r.a.receivedDate.valid \/ r.a.items = <<>>
              THEN Done(r, c, httpError(400, "VALIDATION_ERROR"))
         ELSE IF \E i \in 1..Len(r.a.items) :
                   r.a.items[i].productId <= 0 \/ r.a.items[i].quantity <= 0
              THEN Done(r, c, httpError(400, "VALIDATION_ERROR"))
         ELSE LET b == dbBegin(c, f)
              IN IF b.ok THEN Goto(r, b.c, "get_supplier") ELSE Done(r, c, storeError)
    [] r.pc = "get_supplier" ->
         IF f THEN Throw(r, c, "catch", storeError)
         ELSE IF supplierId > c.t.suppliers
              THEN Throw(r, c, "rollback_return", httpError(404, "NOT_FOUND"))
         ELSE Goto(r, c, "count")
    [] r.pc = "count" ->
         IF f THEN Throw(r, c, "catch", storeError)
         ELSE GotoL(r, c, "insert_batch",
                    [l EXCEPT !.seq = 1 + Cardinality({b \in 1..Len(c.t.receiving_batches) :
                                 c.t.receiving_batches[b].batchNo.day = BatchDay(r.a.receivedDate)})])
    [] r.pc = "insert_batch" ->
         IF f THEN Throw(r, c, "catch", storeError)
         ELSE GotoL(r, [c EXCEPT !.t.receiving_batches =
                          Append(@, [batchNo |-> [day |-> BatchDay(r.a.receivedDate), seq |-> l.seq],
                                     supplierId |-> supplierId,
                                     receivedDate |-> ParsedInstant(r.a.receivedDate),
                                     reconcileStatus |-> "pending"])],
                    "get_product",
                    [l EXCEPT !.batchId = Len(c.t.receiving_batches) + 1, !.todo = r.a.items])
    [] r.pc = "get_product" ->
         IF f THEN Throw(r, c, "catch", storeError)
         ELSE IF ~ProductExists(c, Head(l.todo).productId)
              THEN Throw(r, c, "rollback_return", httpError(404, "NOT_FOUND"))
         ELSE Goto(r, c, "insert_batch_item")
    [] r.pc = "insert_batch_item" ->
         IF f THEN Throw(r, c, "catch", storeError)
         ELSE Goto(r, [c EXCEPT !.t.receiving_batch_items =
                         Append(@, [batchId |-> l.batchId, productId |-> Head(l.todo).productId,
                                    productName |-> c.t.products[Head(l.todo).productId].name,
                                    quantity |-> Head(l.todo).quantity])],
                   "update_stock")
    [] r.pc = "update_stock" ->
         IF f THEN Throw(r, c, "catch", storeError)
         ELSE Goto(r, AddStock(c, Head(l.todo).productId, Head(l.todo).quantity), "insert_log")
    [] r.pc = "insert_log" ->
         IF f THEN Throw(r, c, "catch", storeError)
         ELSE GotoL(r, AddInvLog(c, InvLog(Head(l.todo).productId, "in", Head(l.todo).quantity,
                                           0, l.batchId, 0)),
                    IF Tail(l.todo) = <<>> THEN "commit" ELSE "get_product",
                    [l EXCEPT !.todo = Tail(l.todo)])
    [] r.pc = "commit" ->
         LET cm == dbCommit(c, f)
         IN IF cm.ok THEN Done(r, cm.c, ok(201)) ELSE Throw(r, c, "catch", storeError)
    [] r.pc = "rollback_return" -> RollbackReturn(r, c, f)
    [] r.pc = "catch" -> CatchRollback(r, c, f)

(***************************************************************************)
(* Supplier invoices: POST /supplier-invoices/import,                      *)
(* PATCH /supplier-invoices/:id/items/:itemId and                          *)
(* POST /supplier-invoices/:id/confirm.  A name is the sequence of its     *)
(* glyphs; a period bound is a calendar day ('YYYY-MM-DD'), 0 when the     *)
(* request leaves it out; a nullable number is <<>> or <<n>>.              *)
(***************************************************************************)
\* Math.abs(received.totalQty - quantity) < 0.001, in thousandths
Epsilon == 1

Abs(x) == IF x < 0 THEN 0 - x ELSE x

\* String(name).trim()
RECURSIVE Trim(_)
Trim(name) ==
  IF name = <<>> THEN <<>>
  ELSE IF Head(name) = " " THEN Trim(Tail(name))
  ELSE IF name[Len(name)] = " " THEN Trim(SubSeq(name, 1, Len(name) - 1))
  ELSE name

\* name LIKE '%' || needle || '%'
Like(name, needle) ==
  \E i \in 0..(Len(name) - Len(needle)) : SubSeq(name, i + 1, i + Len(needle)) = needle

\* SELECT id, name FROM products WHERE name = ? (the first row in id order)
ExactMatch(c, trimmed) ==
  LET hits == {p \in DOMAIN c.t.products : c.t.products[p].name = trimmed}
  IN IF hits = {} THEN 0 ELSE CHOOSE p \in hits : \A x \in hits : p <= x

\* SELECT id, name FROM products WHERE name LIKE ? (the first row in id order)
FuzzyMatch(c, trimmed) ==
  LET hits == {p \in DOMAIN c.t.products : Like(c.t.products[p].name, trimmed)}
  IN IF hits = {} THEN 0 ELSE CHOOSE p \in hits : \A x \in hits : p <= x

\* resolveProduct: the product id, 0 for null
resolveProduct(c, name) ==
  IF Trim(name) = <<>> THEN 0
  ELSE IF ExactMatch(c, Trim(name)) # 0 THEN ExactMatch(c, Trim(name))
  ELSE FuzzyMatch(c, Trim(name))

\* the UTC calendar day of a stored receivedDate (parsedDate.toISOString())
IsoDay(instant) == instant \div 24

\* rb.receivedDate >= ? with a 'YYYY-MM-DD' bound: the stored text is
\* 'YYYY-MM-DDTHH:mm:ss.sssZ' and sqlite compares the two texts byte by byte,
\* a text being greater than each of its proper prefixes
ReceivedDateGe(instant, day) == IsoDay(instant) >= day

\* rb.receivedDate <= ? with a 'YYYY-MM-DD' bound: the stored text of the
\* bound's own day has the bound as a proper prefix and so is greater than it
ReceivedDateLe(instant, day) == IsoDay(instant) < day

\* supplierId = ? AND the dateWhere filters pushed for the supplied bounds
BatchSelected(batch, supplierId, periodStart, periodEnd) ==
  /\ batch.supplierId = supplierId
  /\ periodStart # 0 => ReceivedDateGe(batch.receivedDate, periodStart)
  /\ periodEnd # 0 => ReceivedDateLe(batch.receivedDate, periodEnd)

\* SUM(rbi.quantity) over a set of receiving_batch_items rows
RECURSIVE SumQuantity(_, _)
SumQuantity(c, ids) ==
  IF ids = {} THEN 0
  ELSE LET i == CHOOSE x \in ids : TRUE
       IN c.t.receiving_batch_items[i].quantity + SumQuantity(c, ids \ {i})

\* receivedSummary / receivedMap: productId -> totalQty
ReceivedSummary(c, supplierId, periodStart, periodEnd) ==
  LET rows == {i \in 1..Len(c.t.receiving_batch_items) :
                 LET b == c.t.receiving_batch_items[i].batchId
                 IN /\ b \in 1..Len(c.t.receiving_batches)
                    /\ BatchSelected(c.t.receiving_batches[b], supplierId, periodStart, periodEnd)}
      pids == {c.t.receiving_batch_items[i].productId : i \in rows}
  IN [p \in pids |->
        SumQuantity(c, {i \in rows : c.t.receiving_batch_items[i].productId = p})]

\* "Determine match status"
Match(quantity, productId, received) ==
  IF productId # 0 /\ productId \in DOMAIN received
  THEN [matchedQty |-> <<received[productId]>>,
        matchStatus |-> IF quantity > 0 /\ Abs(received[productId] - quantity) < Epsilon
                        THEN "auto_confirmed" ELSE "need_review"]
  ELSE [matchedQty |-> <<>>, matchStatus |-> "unmatched"]

\* `if (!rawName || !String(rawName).trim()) continue`
RECURSIVE SkipBlank(_)
SkipBlank(rows) ==
  IF rows = <<>> THEN <<>>
  ELSE IF Trim(Head(rows).name) = <<>> THEN SkipBlank(Tail(rows))
  ELSE rows

\* Number(row[columnMap.amount]) || (quantity * unitPrice), in thousandths of a cent
RowAmount(row) == IF row.amount # 0 THEN row.amount * 1000 ELSE row.quantity * row.unitPrice

ImportInvoiceLocals ==
  [received |-> <<>>, invoiceId |-> 0, todo |-> <<>>, productId |-> 0, totalAmount |-> 0,
   items |-> <<>>]

ImportInvoiceStep(r, c, f) ==
  LET l == r.l
      row == Head(l.todo)
      after(rest) == IF SkipBlank(rest) = <<>> THEN "update_total" ELSE "resolve_exact"
  IN
  CASE r.pc = "start" ->
         IF ~requireAdmin(r) THEN Done(r, c, httpError(403, "AUTH_FORBIDDEN"))
         ELSE IF ~r.a.hasFile \/ r.a.supplierId = 0
              THEN Done(r, c, httpError(400, "VALIDATION_ERROR"))
         ELSE IF f THEN Throw(r, c, "catch", storeError)
         ELSE IF r.a.supplierId \notin 1..c.t.suppliers
              THEN Done(r, c, httpError(404, "NOT_FOUND"))
         ELSE IF ~r.a.hasNameColumn \/ r.a.rows = <<>>
              THEN Done(r, c, httpError(400, "VALIDATION_ERROR"))
         ELSE Goto(r, c, "summary")
    [] r.pc = "summary" ->
         IF f THEN Throw(r, c, "catch", storeError)
         ELSE GotoL(r, c, "begin",
                    [l EXCEPT !.received = ReceivedSummary(c, r.a.supplierId,
                                                           r.a.periodStart, r.a.periodEnd)])
    [] r.pc = "begin" ->
         LET b == dbBegin(c, f)
         IN IF b.ok THEN Goto(r, b.c, "insert_invoice") ELSE Throw(r, c, "catch", storeError)
    [] r.pc = "insert_invoice" ->
         IF f THEN Throw(r, c, "catch", storeError)
         ELSE GotoL(r, [c EXCEPT !.t.supplier_invoices =
                          Append(@, [supplierId |-> r.a.supplierId,
                                     periodStart |-> r.a.periodStart,
                                     periodEnd |-> r.a.periodEnd,
                                     totalAmount |-> <<>>, status |-> "pending"])],
                    after(r.a.rows),
                    [l EXCEPT !.invoiceId = Len(c.t.supplier_invoices) + 1,
                              !.todo = SkipBlank(r.a.rows)])
    [] r.pc = "resolve_exact" ->
         IF f THEN Throw(r, c, "catch", storeError)
         ELSE IF ExactMatch(c, Trim(row.name)) # 0
              THEN GotoL(r, c, "insert_item",
                         [l EXCEPT !.productId = ExactMatch(c, Trim(row.name))])
         ELSE Goto(r, c, "resolve_fuzzy")
    [] r.pc = "resolve_fuzzy" ->
         IF f THEN Throw(r, c, "catch", storeError)
         ELSE GotoL(r, c, "insert_item", [l EXCEPT !.productId = FuzzyMatch(c, Trim(row.name))])
    [] r.pc = "insert_item" ->
         IF f THEN Throw(r, c, "catch", storeError)
         ELSE LET mt == Match(row.quantity, l.productId, l.received)
                  item == [invoiceId |-> l.invoiceId, productName |-> Trim(row.name),
                           productId |-> l.productId, quantity |-> row.quantity,
                           unitPrice |-> row.unitPrice, amount |-> RowAmount(row),
                           matchedQty |-> mt.matchedQty, matchStatus |-> mt.matchStatus,
                           discrepancyNotes |-> 0]
              IN GotoL(r, [c EXCEPT !.t.supplier_invoice_items = Append(@, item)],
                       after(Tail(l.todo)),
                       [l EXCEPT !.todo = SkipBlank(Tail(l.todo)),
                                 !.totalAmount = @ + RowAmount(row),
                                 !.items = Append(@, [id |-> Len(c.t.supplier_invoice_items) + 1,
                                                      matchedQty |-> mt.matchedQty,
                                                      matchStatus |-> mt.matchStatus])])
    [] r.pc = "update_total" ->
         IF f THEN Throw(r, c, "catch", storeError)
         ELSE Goto(r, IF l.invoiceId \in 1..Len(c.t.supplier_invoices)
                      THEN [c EXCEPT !.t.supplier_invoices[l.invoiceId].totalAmount =
                                       <<l.totalAmount>>]
                      ELSE c,
                   "commit")
    [] r.pc = "commit" ->
         LET cm == dbCommit(c, f)
         IN IF cm.ok
            THEN Done(r, cm.c, [ok(201) EXCEPT !.invoiceId = l.invoiceId, !.items = l.items])
            ELSE Throw(r, c, "catch", storeError)
    [] r.pc = "catch" -> CatchRollback(r, c, f)

InvoiceExists(c, v) == v \in 1..Len(c.t.supplier_invoices)

InvoiceItemsOf(c, v) ==
  {i \in 1..Len(c.t.supplier_invoice_items) : c.t.supplier_invoice_items[i].invoiceId = v}

matchStatuses == {"auto_confirmed", "manual_confirmed", "need_review", "unmatched", "ignored"}

UpdateInvoiceItemStep(r, c, f) ==
  LET i == r.a.itemId
      hasUpdates == r.a.matchStatus # "" \/ r.a.hasProductId \/ r.a.hasNotes
      updated == [c.t.supplier_invoice_items[i] EXCEPT
                    !.matchStatus = IF r.a.matchStatus # "" THEN r.a.matchStatus ELSE @,
                    !.productId = IF r.a.hasProductId THEN r.a.productId ELSE @,
                    !.discrepancyNotes = IF r.a.hasNotes THEN r.a.notes ELSE @]
  IN
  CASE r.pc = "start" ->
         IF ~requireAdmin(r) THEN Done(r, c, httpError(403, "AUTH_FORBIDDEN"))
         ELSE IF f THEN Done(r, c, storeError)
         ELSE IF i \notin InvoiceItemsOf(c, r.a.invoiceId)
              THEN Done(r, c, httpError(404, "NOT_FOUND"))
         ELSE IF r.a.matchStatus # "" /\ r.a.matchStatus \notin matchStatuses
              THEN Done(r, c, httpError(400, "VALIDATION_ERROR"))
         ELSE IF r.a.hasProductId /\ r.a.productId # 0 THEN Goto(r, c, "get_product")
         ELSE IF ~hasUpdates THEN Done(r, c, httpError(400, "VALIDATION_ERROR"))
         ELSE Goto(r, c, "update")
    [] r.pc = "get_product" ->
         IF f THEN Done(r, c, storeError)
         ELSE IF ~ProductExists(c, r.a.productId) THEN Done(r, c, httpError(404, "NOT_FOUND"))
         ELSE Goto(r, c, "update")
    [] r.pc = "update" ->
         IF f THEN Done(r, c, storeError)
         ELSE Goto(r, IF i \in 1..Len(c.t.supplier_invoice_items)
                      THEN [c EXCEPT !.t.supplier_invoice_items[i] = updated] ELSE c,
                   "fetch")
    [] r.pc = "fetch" ->
         IF f THEN Done(r, c, storeError)
         ELSE Done(r, c, [ok(200) EXCEPT !.invoiceId = r.a.invoiceId])

ConfirmInvoiceLocals == [invoice |-> NoRow, newStatus |-> ""]

\* promote leaving the need_review items as they are
promoteAutoConfirmedOnly(c, v) ==
  [c EXCEPT !.t.supplier_invoice_items =
     [i \in 1..Len(@) |->
        IF @[i].invoiceId = v /\ @[i].matchStatus = "auto_confirmed"
        THEN [@[i] EXCEPT !.matchStatus = "manual_confirmed"] ELSE @[i]]]

\* UPDATE supplier_invoice_items SET matchStatus = 'manual_confirmed'
\*   WHERE invoiceId = ? AND matchStatus IN ('auto_confirmed', 'need_review')
promote(c, v) ==
  [c EXCEPT !.t.supplier_invoice_items =
     [i \in 1..Len(@) |->
        IF @[i].invoiceId = v /\ @[i].matchStatus \in {"auto_confirmed", "need_review"}
        THEN [@[i] EXCEPT !.matchStatus = "manual_confirmed"] ELSE @[i]]]

\* SELECT COUNT(*) ... WHERE invoiceId = ? AND matchStatus NOT IN ('manual_confirmed', 'ignored')
remaining(c, v) ==
  Cardinality({i \in InvoiceItemsOf(c, v) :
                 c.t.supplier_invoice_items[i].matchStatus \notin {"manual_confirmed", "ignored"}})

\* UPDATE receiving_batches SET reconcileStatus = 'reconciled' WHERE supplierId = ?${dateWhere}
reconcileBatches(c, invoice) ==
  [c EXCEPT !.t.receiving_batches =
     [b \in 1..Len(@) |->
        IF BatchSelected(@[b], invoice.supplierId, invoice.periodStart, invoice.periodEnd)
        THEN [@[b] EXCEPT !.reconcileStatus = "reconciled"] ELSE @[b]]]

ConfirmInvoiceStep(r, c, f) ==
  LET l == r.l
      v == r.a.invoiceId
  IN
  CASE r.pc = "start" ->
         IF ~requireAdmin(r) THEN Done(r, c, httpError(403, "AUTH_FORBIDDEN"))
         ELSE IF f THEN Throw(r, c, "catch", storeError)
         ELSE IF ~InvoiceExists(c, v) THEN Done(r, c, httpError(404, "NOT_FOUND"))
         ELSE GotoL(r, c, "begin", [l EXCEPT !.invoice = c.t.supplier_invoices[v]])
    [] r.pc = "begin" ->
         LET b == dbBegin(c, f)
         IN IF b.ok THEN Goto(r, b.c, "promote") ELSE Throw(r, c, "catch", storeError)
    [] r.pc = "promote" ->
         IF f THEN Throw(r, c, "catch", storeError) ELSE Goto(r, promote(c, v), "count")
    [] r.pc = "count" ->
         IF f THEN Throw(r, c, "catch", storeError)
         ELSE GotoL(r, c, "set_status",
                    [l EXCEPT !.newStatus = IF remaining(c, v) = 0 THEN "confirmed" ELSE "partial"])
    [] r.pc = "set_status" ->
         IF f THEN Throw(r, c, "catch", storeError)
         ELSE Goto(r, IF InvoiceExists(c, v)
                      THEN [c EXCEPT !.t.supplier_invoices[v].status = l.newStatus] ELSE c,
                   IF l.newStatus = "confirmed" THEN "reconcile" ELSE "commit")
    [] r.pc = "reconcile" ->
         IF f THEN Throw(r, c, "catch", storeError)
         ELSE Goto(r, reconcileBatches(c, l.invoice), "commit")
    [] r.pc = "commit" ->
         LET cm == dbCommit(c, f)
         IN IF cm.ok THEN Goto(r, cm.c, "fetch") ELSE Throw(r, c, "catch", storeError)
    [] r.pc = "fetch" ->
         IF f THEN Throw(r, c, "catch", storeError)
         ELSE Done(r, c, [ok(200) EXCEPT !.invoiceId = v])
    [] r.pc = "catch" -> CatchRollback(r, c, f)

(***************************************************************************)
(* POST /backup/import restoring receiving_batch_items: the dump lists the *)
(* rows as export wrote them, in id order from 1                           *)
(***************************************************************************)
ImportBatchItemsStep(r, c, f) ==
  CASE r.pc = "start" ->
         IF ~requireAdmin(r) THEN Done(r, c, httpError(403, "AUTH_FORBIDDEN"))
         ELSE IF r.a.rows = <<>> THEN Done(r, c, ok(200))
         ELSE IF f THEN Done(r, c, storeError)
         ELSE GotoL(r, [c EXCEPT !.t.receiving_batch_items = <<>>], "insert_row",
                    [r.l EXCEPT !.todo = r.a.rows])
    [] r.pc = "insert_row" ->
         LET rest == Tail(r.l.todo)
             grown == [c EXCEPT !.t.receiving_batch_items = Append(@, Head(r.l.todo))]
         IN IF f THEN Done(r, c, storeError)
            ELSE IF rest = <<>> THEN Done(r, grown, ok(200))
            ELSE GotoL(r, grown, "insert_row", [r.l EXCEPT !.todo = rest])

(***************************************************************************)
(* Running a handler                                                       *)
(***************************************************************************)
\* one step of request r on connection c; f: the store rejects this statement
Exec(r, c, f) ==
  CASE r.op = "status" -> UpdateStatusStep(r, c, f)
    [] r.op \in {"inbound", "returns", "damages"} -> InventoryStep(r, c, f)
    [] r.op = "set_stock" -> SetStockStep(r, c, f)
    [] r.op = "create_order" -> CreateOrderStep(r, c, f)
    [] r.op = "add_item" -> AddItemStep(r, c, f)
    [] r.op = "edit_item" -> EditItemStep(r, c, f)
    [] r.op = "delete_item" -> DeleteItemStep(r, c, f)
    [] r.op = "import_items" -> ImportItemsStep(r, c, f)
    [] r.op = "create_supplier" -> CreateSupplierStep(r, c, f)
    [] r.op = "create_batch" -> CreateBatchStep(r, c, f)
    [] r.op = "pending_changes" -> PendingChangesStep(r, c, f)
    [] r.op = "review" -> ReviewStep(r, c, f)
    [] r.op = "trip" -> TripStep(r, c, f)
    [] r.op = "import_invoice" -> ImportInvoiceStep(r, c, f)
    [] r.op = "update_invoice_item" -> UpdateInvoiceItemStep(r, c, f)
    [] r.op = "confirm_invoice" -> ConfirmInvoiceStep(r, c, f)
    [] r.op = "import_batch_items" -> ImportBatchItemsStep(r, c, f)
    [] r.op = "update_product" -> UpdateProductStep(r, c, f)
    [] r.op = "item_status" -> ItemStatusStep(r, c, f)

\* the handler run to its response with no other request in between;
\* k > 0: the k-th statement it issues is rejected by the store
RECURSIVE Run(_, _, _)
Run(r, c, k) ==
  IF r.pc = "done" THEN [r |-> r, c |-> c]
  ELSE LET s == Exec(r, c, k = 1)
       IN Run(s.r, s.c, IF k > 0 THEN k - 1 ELSE 0)

\* the response of a request served alone: slot 1 keeps the request and its response
Respond(fin) ==
  /\ Install(fin.c)
  /\ reqs' = [reqs EXCEPT ![1] = fin.r]

(***************************************************************************)
(* Callers and payloads                                                    *)
(***************************************************************************)
Admin == [role |-> "admin", cust |-> 0]
Customer(n) == [role |-> "customer", cust |-> n]

D(d, h, off) == [valid |-> TRUE, day |-> d, hour |-> h, offset |-> off]
BadDate == [valid |-> FALSE, day |-> 0, hour |-> 0, offset |-> 0]

Line(p, q) == [productId |-> p, qtyOrdered |-> q]

CreateOrderReq(caller, date, items, bodyCustomerId) ==
  Req("create_order", caller.role, caller.cust,
      [items |-> items, deliveryDate |-> date, customerId |-> bodyCustomerId], CreateOrderLocals)

UpdateStatusReq(caller, o, st) ==
  Req("status", caller.role, caller.cust, [orderId |-> o, status |-> st], UpdateStatusLocals)

AddItemReq(caller, o, p, q, hasPrice, price) ==
  Req("add_item", caller.role, caller.cust,
      [orderId |-> o, productId |-> p, qtyOrdered |-> q, hasPrice |-> hasPrice, unitPrice |-> price],
      ItemOpLocals)

EditItemReq(caller, i, hasQty, q, hasPrice, price) ==
  Req("edit_item", caller.role, caller.cust,
      [itemId |-> i, hasQty |-> hasQty, qtyOrdered |-> q, hasPrice |-> hasPrice, unitPrice |-> price],
      ItemOpLocals)

DeleteItemReq(caller, i) ==
  Req("delete_item", caller.role, caller.cust, [itemId |-> i], ItemOpLocals)

InventoryReq(op, caller, p, q, remark) ==
  Req(op, caller.role, caller.cust, [productId |-> p, quantity |-> q, remark |-> remark], <<>>)

SetStockReq(caller, p, stock) ==
  Req("set_stock", caller.role, caller.cust, [productId |-> p, stock |-> stock], <<>>)

ImportItemsReq(caller, rows) ==
  Req("import_items", caller.role, caller.cust, [rows |-> rows], ImportLocals)

PendingChangesReq(caller) == Req("pending_changes", caller.role, caller.cust, <<>>, <<>>)

ReviewReq(caller, o) == Req("review", caller.role, caller.cust, [orderId |-> o], <<>>)

TripReq(caller, o, trip) ==
  Req("trip", caller.role, caller.cust, [orderId |-> o, tripNumber |-> trip], <<>>)

\* a parsed sheet row: the product-name cell, quantity, unit price and amount cells
InvoiceRow(name, quantity, unitPrice, amount) ==
  [name |-> name, quantity |-> quantity, unitPrice |-> unitPrice, amount |-> amount]

ImportInvoiceReq(caller, supplierId, periodStart, periodEnd, rows) ==
  Req("import_invoice", caller.role, caller.cust,
      [hasFile |-> TRUE, hasNameColumn |-> TRUE, supplierId |-> supplierId,
       periodStart |-> periodStart, periodEnd |-> periodEnd, rows |-> rows],
      ImportInvoiceLocals)

UpdateInvoiceItemReq(caller, invoiceId, itemId, matchStatus) ==
  Req("update_invoice_item", caller.role, caller.cust,
      [invoiceId |-> invoiceId, itemId |-> itemId, matchStatus |-> matchStatus,
       hasProductId |-> FALSE, productId |-> 0, hasNotes |-> FALSE, notes |-> 0], <<>>)

ConfirmInvoiceReq(caller, invoiceId) ==
  Req("confirm_invoice", caller.role, caller.cust, [invoiceId |-> invoiceId],
      ConfirmInvoiceLocals)

ImportBatchItemsReq(caller, rows) ==
  Req("import_batch_items", caller.role, caller.cust, [rows |-> rows], ImportLocals)

\* a PATCH /orders/items/:id/status body: picked and outOfStock flags, each optional
ItemStatusReq(caller, i, hasPicked, picked, hasOutOfStock, outOfStock) ==
  Req("item_status", caller.role, caller.cust,
      [itemId |-> i, hasPicked |-> hasPicked, picked |-> picked,
       hasOutOfStock |-> hasOutOfStock, outOfStock |-> outOfStock], <<>>)

\* a PATCH /products/:id body carrying a unit and/or a price
UpdateProductReq(caller, productId, hasUnit, unit, hasPrice, price) ==
  Req("update_product", caller.role, caller.cust,
      [productId |-> productId, hasName |-> FALSE, name |-> <<>>, hasUnit |-> hasUnit,
       unit |-> unit, hasPrice |-> hasPrice, priceIsNumber |-> TRUE, price |-> price], <<>>)

CreateSupplierReq(caller) == Req("create_supplier", caller.role, caller.cust, <<>>, <<>>)

CreateBatchReq(caller, supplierId, date, items) ==
  Req("create_batch", caller.role, caller.cust,
      [supplierId |-> supplierId, receivedDate |-> date, items |-> items], CreateBatchLocals)

\* a dump of order_items as it stands, with picked quantities filled in
LiveItems == SelectSeq(order_items, LAMBDA row : row # NoRow)
DumpWithPicks(pick) ==
  [i \in 1..Len(LiveItems) |-> [LiveItems[i] EXCEPT !.qtyPicked = pick[i]]]

(***************************************************************************)
(* Initial state: the database as server/db.js seeds it                    *)
(***************************************************************************)
EmptyTables ==
  [products |-> [p \in ProductIds |-> SeedProduct(p)], orders |-> <<>>, order_items |-> <<>>,
   order_change_logs |-> <<>>, inventory_logs |-> <<>>, suppliers |-> 0,
   receiving_batches |-> <<>>, receiving_batch_items |-> <<>>,
   supplier_invoices |-> <<>>, supplier_invoice_items |-> <<>>]

InitWith(t) ==
  /\ products = t.products
  /\ orders = t.orders
  /\ order_items = t.order_items
  /\ order_change_logs = t.order_change_logs
  /\ inventory_logs = t.inventory_logs
  /\ suppliers = t.suppliers
  /\ receiving_batches = t.receiving_batches
  /\ receiving_batch_items = t.receiving_batch_items
  /\ supplier_invoices = t.supplier_invoices
  /\ supplier_invoice_items = t.supplier_invoice_items
  /\ inTx = FALSE
  /\ snap = NoTables
  /\ reqs = [s \in 1..MaxSlots |-> NoReq]

Init == InitWith(EmptyTables)

(***************************************************************************)
(* Spec: the order endpoints, one request at a time, one delivery date     *)
(***************************************************************************)
OrderIds == 1..Len(orders)
ItemIds == {i \in 1..Len(order_items) : order_items[i] # NoRow}

CreateOrder ==
  \E caller \in {Admin, Customer(1)} :
    LET fin == Run(CreateOrderReq(caller, D(1, 0, 0), <<Line(1, 550)>>, 1), Conn, 0)
    IN /\ WithinBounds(fin.c)
       /\ Respond(fin)

UpdateStatus ==
  \E o \in OrderIds, st \in {"created", "shipped", "cancelled"} :
    LET fin == Run(UpdateStatusReq(Admin, o, st), Conn, 0)
    IN /\ WithinBounds(fin.c)
       /\ Respond(fin)

AddItem ==
  \E o \in OrderIds, hasPrice \in BOOLEAN :
    LET fin == Run(AddItemReq(Admin, o, 1, 550, hasPrice, 1005), Conn, 0)
    IN /\ WithinBounds(fin.c)
       /\ Respond(fin)

EditItem ==
  \E i \in ItemIds, hasQty \in BOOLEAN :
    LET fin == Run(EditItemReq(Admin, i, hasQty, 1000, ~hasQty, 1005), Conn, 0)
    IN /\ WithinBounds(fin.c)
       /\ Respond(fin)

DeleteItem ==
  \E i \in ItemIds :
    LET fin == Run(DeleteItemReq(Admin, i), Conn, 0)
    IN /\ WithinBounds(fin.c)
       /\ Respond(fin)

Next == CreateOrder \/ UpdateStatus \/ AddItem \/ EditItem \/ DeleteItem

Spec == Init /\ [][Next]_vars

\* the request served last and its response
last == reqs[1]

\* the sum over an order's current rows of qtyOrdered x unitPrice, taken over the ids
RECURSIVE LineSum(_, _)
LineSum(o, ids) ==
  IF ids = {} THEN 0
  ELSE LET i == CHOOSE x \in ids : TRUE
       IN (IF order_items[i].orderId = o
           THEN order_items[i].qtyOrdered * order_items[i].unitPrice ELSE 0)
          + LineSum(o, ids \ {i})

\* two decimals, half up, of an amount in 1/1000 cent
Rounded2(x) == IF x % 1000 >= 500 THEN x \div 1000 + 1 ELSE x \div 1000

\* C5: after any sequence of create, merge, add-item, edit-item and delete-item
\* requests served one at a time, every order's totalAmount is the sum over its
\* current line items of qtyOrdered x unitPrice rounded to two decimals, the
\* follow-up order of a locked order included.
C5_TotalIsRoundedSum ==
  \A o \in OrderIds : orders[o].totalAmount = Rounded2(LineSum(o, ItemIds))

\* an edit answered 200 on an order of two lines whose sum rounds differently
\* from its lines (0.55 x 52.30 + 0.55 x 10.05 = 34.2925)
C5_Witness ==
  /\ last.op = "edit_item" /\ last.res.status = 200
  /\ Cardinality({i \in ItemIds : order_items[i].orderId = last.res.orderId}) = 2
  /\ orders[last.res.orderId].totalAmount = 3429

\* C10: a successful add-item on a shipped, completed or cancelled order leaves
\* that order's row and line items as they were, inserts exactly one order with
\* the same customer and delivery date and status created, puts the new line
\* there and answers its id as redirectedOrderId; on any other order no order
\* row is inserted and redirectedOrderId is null (0).
C10_AddItemStep ==
  LET o == last'.a.orderId
      n == Len(orders)
      m == Len(order_items)
  IN (last'.op = "add_item" /\ last'.res.status = 201) =>
       /\ \A x \in 1..n : (x # o \/ orders[o].status \in lockedStatuses) => orders'[x] = orders[x]
       /\ \A i \in 1..m : order_items'[i] = order_items[i]
       /\ Len(order_items') = m + 1
       /\ IF orders[o].status \in lockedStatuses
          THEN /\ Len(orders') = n + 1
               /\ orders'[n + 1].customerId = orders[o].customerId
               /\ orders'[n + 1].deliveryDate = orders[o].deliveryDate
               /\ orders'[n + 1].status = "created"
               /\ order_items'[m + 1].orderId = n + 1
               /\ last'.res.redirectedOrderId = n + 1
          ELSE /\ Len(orders') = n
               /\ order_items'[m + 1].orderId = o
               /\ last'.res.redirectedOrderId = 0

C10_LockedOrderRedirects == [][C10_AddItemStep]_vars

\* an add-item answered with a redirect away from a cancelled order
C10_Witness ==
  /\ last.op = "add_item" /\ last.res.status = 201
  /\ last.res.redirectedOrderId = Len(orders)
  /\ orders[last.a.orderId].status = "cancelled"

\* C11: an edit-item or delete-item request on a line of a shipped, completed
\* or cancelled order is answered 409 ORDER_LOCKED (not a validation error) and
\* leaves the line, the order's other lines and the order row as they were.
C11_Step ==
  LET i == last'.a.itemId
  IN (/\ last'.op \in {"edit_item", "delete_item"}
      /\ i \in ItemIds
      /\ orders[order_items[i].orderId].status \in lockedStatuses) =>
       /\ last'.res.status = 409
       /\ last'.res.code = "ORDER_LOCKED"
       /\ order_items' = order_items
       /\ orders' = orders

C11_LockedOrderRejectsEdits == [][C11_Step]_vars

\* a delete refused on a line of a cancelled order
C11_Witness ==
  /\ last.op = "delete_item" /\ last.res.code = "ORDER_LOCKED"
  /\ last.a.itemId \in ItemIds
  /\ orders[order_items[last.a.itemId].orderId].status = "cancelled"

(***************************************************************************)
(* SpecStock: stock movements, receiving and status transitions, one       *)
(* request at a time.  Picked quantities enter through a restored backup   *)
(* (no other route writes qtyPicked).                                      *)
(***************************************************************************)
StockCreateOrder ==
  LET fin == Run(CreateOrderReq(Customer(1), D(1, 0, 0), <<Line(1, 1000)>>, 0), Conn, 0)
  IN /\ WithinBounds(fin.c)
     /\ Respond(fin)

StockImportItems ==
  \E pick \in [1..Len(LiveItems) -> {0, Units(2)}] :
    LET fin == Run(ImportItemsReq(Admin, DumpWithPicks(pick)), Conn, 0)
    IN /\ WithinBounds(fin.c)
       /\ Respond(fin)

StockUpdateStatus ==
  \E o \in OrderIds, st \in {"created", "shipped", "completed"} :
    LET fin == Run(UpdateStatusReq(Admin, o, st), Conn, 0)
    IN /\ WithinBounds(fin.c)
       /\ Respond(fin)

Inbound ==
  LET fin == Run(InventoryReq("inbound", Admin, 1, 1, 0), Conn, 0)
  IN /\ WithinBounds(fin.c)
     /\ Respond(fin)

Returns ==
  LET fin == Run(InventoryReq("returns", Admin, 1, 1, 0), Conn, 0)
  IN /\ WithinBounds(fin.c)
     /\ Respond(fin)

Damages ==
  LET fin == Run(InventoryReq("damages", Admin, 1, 1, 0), Conn, 0)
  IN /\ WithinBounds(fin.c)
     /\ Respond(fin)

SetStock ==
  LET fin == Run(SetStockReq(Admin, 1, Units(3)), Conn, 0)
  IN /\ WithinBounds(fin.c)
     /\ Respond(fin)

CreateSupplier ==
  LET fin == Run(CreateSupplierReq(Admin), Conn, 0)
  IN /\ WithinBounds(fin.c)
     /\ Respond(fin)

CreateBatch ==
  LET fin == Run(CreateBatchReq(Admin, 1, D(1, 0, 0), <<[productId |-> 1, quantity |-> Units(1)]>>),
                 Conn, 0)
  IN /\ WithinBounds(fin.c)
     /\ Respond(fin)

NextStock ==
  \/ StockCreateOrder \/ StockImportItems \/ StockUpdateStatus
  \/ Inbound \/ Returns \/ Damages \/ SetStock \/ CreateSupplier \/ CreateBatch

SpecStock == Init /\ [][NextStock]_vars

\* C1: through inbound, return, damage, stock-set, batch and status requests
\* served one at a time every product's stock stays >= 0, also when the order
\* shipped holds several picked lines of one product.
C1_StockNonNegative == \A p \in ProductIds : products[p].stock >= 0

\* the 'out' movements recorded for an order
OutRows(logs, o) == SelectSeq(logs, LAMBDA row : row.type = "out" /\ row.orderId = o)

\* the picked quantity an order holds of a product, over its current lines
RECURSIVE PickedOf(_, _, _)
PickedOf(o, p, ids) ==
  IF ids = {} THEN 0
  ELSE LET i == CHOOSE x \in ids : TRUE
       IN (IF order_items[i].orderId = o /\ order_items[i].productId = p
           THEN order_items[i].qtyPicked ELSE 0)
          + PickedOf(o, p, ids \ {i})

\* C2: whatever the sequence of status transitions (back to created and forth,
\* shipped then completed), the deduction pass runs at most once per order:
\* stockDeducted is never reset; a transition of an order already deducted
\* moves no stock and records no movement; the one step that records the
\* order's outbound movements takes exactly its picked quantities and sets the flag.
C2_Step ==
  \A o \in OrderIds :
    /\ orders[o].stockDeducted => orders'[o].stockDeducted
    /\ (last'.op = "status" /\ last'.a.orderId = o /\ orders[o].stockDeducted) =>
         /\ products' = products
         /\ inventory_logs' = inventory_logs
    /\ OutRows(inventory_logs', o) # OutRows(inventory_logs, o) =>
         /\ ~orders[o].stockDeducted
         /\ orders'[o].stockDeducted
         /\ \A p \in ProductIds :
              products[p].stock - products'[p].stock = PickedOf(o, p, ItemIds)

C2_DeductedAtMostOnce == [][C2_Step]_vars

\* an order with a recorded outbound movement is sent to shipped once more
\* and the handler finds its flag set
C2_Witness ==
  /\ last.op = "status" /\ last.a.status = "shipped" /\ last.res.status = 200
  /\ last.l.stockDeducted
  /\ OutRows(inventory_logs, last.a.orderId) # <<>>

\* the lines of an order whose positive picked quantity exceeds the stock
UnderStocked(o) ==
  {[productId |-> order_items[i].productId,
    name |-> products[order_items[i].productId].name,
    stock |-> products[order_items[i].productId].stock,
    required |-> order_items[i].qtyPicked] :
     i \in {x \in ItemIds : /\ order_items[x].orderId = o
                            /\ order_items[x].qtyPicked > 0
                            /\ products[order_items[x].productId].stock < order_items[x].qtyPicked}}

UnderStockedLines(o) ==
  Cardinality({x \in ItemIds : /\ order_items[x].orderId = o
                               /\ order_items[x].qtyPicked > 0
                               /\ products[order_items[x].productId].stock < order_items[x].qtyPicked})

\* C3: a transition into shipped or completed that runs the sufficiency check
\* and finds an under-stocked line is rejected with STOCK_INSUFFICIENT; orders,
\* line items, stock and movement records stay as they were and the error
\* lists every under-stocked line with its name, stock and required quantity.
C3_Step ==
  LET o == last'.a.orderId
  IN (/\ last'.op = "status"
      /\ last'.a.status \in {"shipped", "completed"}
      /\ o \in OrderIds
      /\ ~orders[o].stockDeducted
      /\ UnderStocked(o) # {}) =>
       /\ last'.res.status = 400
       /\ last'.res.code = "STOCK_INSUFFICIENT"
       /\ orders' = orders
       /\ order_items' = order_items
       /\ products' = products
       /\ inventory_logs' = inventory_logs
       /\ Len(last'.res.insufficient) = UnderStockedLines(o)
       /\ {last'.res.insufficient[i] : i \in 1..Len(last'.res.insufficient)} = UnderStocked(o)

C3_InsufficientRejects == [][C3_Step]_vars

\* a rejection that lists two under-stocked lines
C3_Witness ==
  /\ last.op = "status" /\ last.res.code = "STOCK_INSUFFICIENT"
  /\ Len(last.res.insufficient) = 2

(***************************************************************************)
(* SpecMerge: order submissions by customers and the admin, for delivery   *)
(* dates written in several ways, with orders confirmed or shipped between *)
(***************************************************************************)
MergeCreateOrder ==
  \E caller \in {Admin, Customer(1), Customer(2)},
     date \in {D(1, 0, 0), D(0, 23, -5), D(2, 0, 0), BadDate} :
    LET fin == Run(CreateOrderReq(caller, date, <<Line(1, 550)>>, 1), Conn, 0)
    IN /\ WithinBounds(fin.c)
       /\ Respond(fin)

MergeUpdateStatus ==
  \E o \in OrderIds, st \in {"confirmed", "shipped"} :
    LET fin == Run(UpdateStatusReq(Admin, o, st), Conn, 0)
    IN /\ WithinBounds(fin.c)
       /\ Respond(fin)

NextMerge == MergeCreateOrder \/ MergeUpdateStatus

SpecMerge == Init /\ [][NextMerge]_vars

\* the UTC calendar day of the instant a delivery date denotes
UtcDay(d) == (d.day * 24 + d.hour - d.offset) \div 24

\* the open orders (created or confirmed) of a customer for a day
OpenOrders(cust, day) ==
  {o \in OrderIds : /\ orders[o].customerId = cust
                    /\ orders[o].deliveryDate = day
                    /\ orders[o].status \in {"created", "confirmed"}}

\* C6: an accepted create-order request appends its items to an existing order,
\* adding no order row and answering merged = true, exactly when the caller is
\* not an admin and an open order of the same customer and normalized delivery
\* date exists; otherwise it inserts exactly one order row with status created.
C6_Step ==
  LET rq == last'
      cust == IF rq.role = "admin" THEN rq.a.customerId ELSE rq.cust
      open == OpenOrders(cust, UtcDay(rq.a.deliveryDate))
      mergeCase == rq.role # "admin" /\ open # {}
      n == Len(orders)
      m == Len(order_items)
  IN (rq.op = "create_order" /\ rq.res.status \in {200, 201}) =>
       /\ rq.res.merged <=> mergeCase
       /\ Len(order_items') = m + Len(rq.a.items)
       /\ \A i \in (m + 1)..Len(order_items') : order_items'[i].orderId = rq.res.orderId
       /\ \A i \in 1..m : order_items'[i] = order_items[i]
       /\ IF mergeCase
          THEN /\ Len(orders') = n
               /\ rq.res.orderId \in open
          ELSE /\ Len(orders') = n + 1
               /\ rq.res.orderId = n + 1
               /\ orders'[n + 1].status = "created"
               /\ orders'[n + 1].customerId = cust
               /\ orders'[n + 1].deliveryDate = UtcDay(rq.a.deliveryDate)
               /\ \A o \in 1..n : orders'[o] = orders[o]

C6_MergeIffCustomerAndOpenOrder == [][C6_Step]_vars

\* a customer's second submission, its date written with a time and a zone,
\* merged into the one order, which now holds both lines
C6_Witness ==
  /\ last.op = "create_order" /\ last.res.merged
  /\ last.a.deliveryDate = D(0, 23, -5)
  /\ Len(orders) = 1
  /\ Cardinality({i \in ItemIds : order_items[i].orderId = 1}) = 2

\* C12: a successful create-order request appends exactly one change-log row
\* to its target order, typed order_created when a new order row was created
\* and merged_order_update when the lines went to an existing order, sets the
\* order's pendingReview flag and stamps lastModifiedAt.
C12_Step ==
  (last'.op = "create_order" /\ last'.res.status \in {200, 201}) =>
    LET o == last'.res.orderId
        n == Len(order_change_logs)
    IN /\ Len(order_change_logs') = n + 1
       /\ SubSeq(order_change_logs', 1, n) = order_change_logs
       /\ order_change_logs'[n + 1].orderId = o
       /\ order_change_logs'[n + 1].type =
            (IF last'.res.merged THEN "merged_order_update" ELSE "order_created")
       /\ orders'[o].pendingReview
       /\ orders'[o].lastModifiedAt > 0
       /\ \A x \in 1..Len(orders) : orders'[o].lastModifiedAt >= orders[x].lastModifiedAt

C12_ChangeLogTyped == [][C12_Step]_vars

(***************************************************************************)
(* SpecFail: the order endpoints, one request at a time, where the store   *)
(* may reject one statement of a compound operation (k = 0: none)          *)
(***************************************************************************)
FailCreateOrder ==
  \E caller \in {Admin, Customer(1)}, k \in 0..MaxStatements :
    LET fin == Run(CreateOrderReq(caller, D(1, 0, 0), <<Line(1, 550)>>, 1), Conn, k)
    IN /\ WithinBounds(fin.c)
       /\ Respond(fin)

FailUpdateStatus ==
  \E o \in OrderIds, st \in {"created", "shipped"} :
    LET fin == Run(UpdateStatusReq(Admin, o, st), Conn, 0)
    IN /\ WithinBounds(fin.c)
       /\ Respond(fin)

FailAddItem ==
  \E o \in OrderIds, k \in 0..MaxStatements :
    LET fin == Run(AddItemReq(Admin, o, 1, 550, TRUE, 1005), Conn, k)
    IN /\ WithinBounds(fin.c)
       /\ Respond(fin)

FailEditItem ==
  \E i \in ItemIds, k \in 0..MaxStatements :
    LET fin == Run(EditItemReq(Admin, i, TRUE, 1000, FALSE, 0), Conn, k)
    IN /\ WithinBounds(fin.c)
       /\ Respond(fin)

FailDeleteItem ==
  \E i \in ItemIds, k \in 0..MaxStatements :
    LET fin == Run(DeleteItemReq(Admin, i), Conn, k)
    IN /\ WithinBounds(fin.c)
       /\ Respond(fin)

NextFail == FailCreateOrder \/ FailUpdateStatus \/ FailAddItem \/ FailEditItem \/ FailDeleteItem

SpecFail == Init /\ [][NextFail]_vars

\* C8: a compound order operation (create/merge, add-item with its follow-up
\* order, edit-item, delete-item) run alone that answers an error leaves the
\* store exactly as it was before the operation.
C8_Step ==
  (last'.op \in {"create_order", "add_item", "edit_item", "delete_item"} /\ last'.res.status >= 400) =>
    /\ orders' = orders
    /\ order_items' = order_items
    /\ order_change_logs' = order_change_logs

C8_FailClosed == [][C8_Step]_vars

(***************************************************************************)
(* SpecConc: requests in flight together.  Every await hands the event     *)
(* loop to the other handlers, so the statements of up to MaxSlots         *)
(* requests interleave on the one handle.  The store starts as SpecStock   *)
(* leaves it after a customer's order of one line of product 1, a restored *)
(* backup with 2 units picked on that line and a stock-set to 3 units.     *)
(***************************************************************************)
PickedTables ==
  [EmptyTables EXCEPT
     !.products[1].stock = Units(3),
     !.orders = <<[OrderRow(1, 1, 5230) EXCEPT !.pendingReview = TRUE,
                                                !.lastModifiedAt = 1]>>,
     !.order_items = <<[id |-> 1, orderId |-> 1, productId |-> 1, qtyOrdered |-> 1000,
                        qtyPicked |-> Units(2), unitPrice |-> 5230,
                        status |-> "created", picked |-> FALSE, outOfStock |-> FALSE]>>,
     !.order_change_logs = <<[orderId |-> 1, type |-> "change", detail |-> <<Line(1, 1000)>>]>>]

InitConc == InitWith(PickedTables)

\* requests take the slots in order, one request per slot
FreeSlot(s) == reqs[s].op = "none" /\ \A x \in 1..(s - 1) : reqs[x].op # "none"
AllDone == \A s \in 1..MaxSlots : reqs[s].op # "none" /\ reqs[s].pc = "done"

ConcStartStatus ==
  \E s \in 1..MaxSlots :
    /\ FreeSlot(s)
    /\ reqs' = [reqs EXCEPT ![s] = UpdateStatusReq(Admin, 1, "shipped")]
    /\ UNCHANGED <<products, orders, order_items, order_change_logs, inventory_logs, suppliers,
                   receiving_batches, receiving_batch_items, supplier_invoices,
                   supplier_invoice_items, inTx, snap>>

\* the remark names the request, so that its movement record can be told apart
ConcStartInbound ==
  \E s \in 1..MaxSlots :
    /\ FreeSlot(s)
    /\ reqs' = [reqs EXCEPT ![s] = InventoryReq("inbound", Admin, 1, 1, s)]
    /\ UNCHANGED <<products, orders, order_items, order_change_logs, inventory_logs, suppliers,
                   receiving_batches, receiving_batch_items, supplier_invoices,
                   supplier_invoice_items, inTx, snap>>

ConcStep ==
  \E s \in 1..MaxSlots :
    /\ reqs[s].pc # "done"
    /\ LET st == Exec(reqs[s], Conn, FALSE)
       IN /\ Install(st.c)
          /\ reqs' = [reqs EXCEPT ![s] = st.r]

NextConc == ConcStartStatus \/ ConcStartInbound \/ ConcStep

SpecConc == InitConc /\ [][NextConc]_vars

\* C4: however the statements of several transitions into shipped interleave
\* on the shared handle, no two of them both pass the sufficiency check and
\* both deduct: once all have answered, the order's one picked line has been
\* taken from stock at most once and no stock is negative.
C4_NoDoubleDeduction ==
  AllDone =>
    /\ Len(OutRows(Persisted.inventory_logs, 1)) <= 1
    /\ \A p \in ProductIds : Persisted.products[p].stock >= 0

\* C9: of operations whose statements interleave, one that answered an error
\* has none of its writes persisted and one that answered success has all of
\* them persisted (here: the movement record of an inbound request).
C9_ErrorNothingSuccessAll ==
  \A s \in 1..MaxSlots :
    (reqs[s].op = "inbound" /\ reqs[s].pc = "done") =>
      LET mine == SelectSeq(Persisted.inventory_logs, LAMBDA row : row.remark = s)
      IN IF reqs[s].res.status = 201 THEN Len(mine) = 1 ELSE mine = <<>>

(***************************************************************************)
(* SpecConcCreate: customer submissions for one day in flight together,    *)
(* on the store as seeded                                                  *)
(***************************************************************************)
ConcStartCreate ==
  \E s \in 1..MaxSlots :
    /\ FreeSlot(s)
    /\ reqs' = [reqs EXCEPT ![s] = CreateOrderReq(Customer(1), D(1, 0, 0), <<Line(1, 550)>>, 0)]
    /\ UNCHANGED <<products, orders, order_items, order_change_logs, inventory_logs, suppliers,
                   receiving_batches, receiving_batch_items, supplier_invoices,
                   supplier_invoice_items, inTx, snap>>

ConcCreateStep ==
  \E s \in 1..MaxSlots :
    /\ reqs[s].pc # "done"
    /\ LET st == Exec(reqs[s], Conn, FALSE)
       IN /\ Install(st.c)
          /\ reqs' = [reqs EXCEPT ![s] = st.r]

NextConcCreate == ConcStartCreate \/ ConcCreateStep

SpecConcCreate == Init /\ [][NextConcCreate]_vars

\* C7: whatever the interleaving of a customer's submissions for one day, the
\* outcome is that of serving them one after the other: one order row, holding
\* the line of every submission that was accepted.
C7_SerializableCreate ==
  (\A s \in 1..MaxSlots : reqs[s].pc = "done") =>
    LET accepted == {s \in 1..MaxSlots : reqs[s].op = "create_order" /\ reqs[s].res.status \in {200, 201}}
    IN accepted # {} =>
         /\ Len(Persisted.orders) = 1
         /\ Len(SelectSeq(Persisted.order_items, LAMBDA row : row # NoRow /\ row.orderId = 1))
              = Cardinality(accepted)

(***************************************************************************)
(* SpecReview: submissions, line edits, status transitions, review         *)
(* acknowledgements and the pending-changes listing, one request at a time *)
(***************************************************************************)
ReviewCreateOrder ==
  \E caller \in {Admin, Customer(1)} :
    LET fin == Run(CreateOrderReq(caller, D(1, 0, 0), <<Line(1, 1000)>>, 1), Conn, 0)
    IN /\ WithinBounds(fin.c)
       /\ Respond(fin)

ReviewAddItem ==
  \E o \in OrderIds :
    LET fin == Run(AddItemReq(Admin, o, 1, 1000, FALSE, 0), Conn, 0)
    IN /\ WithinBounds(fin.c)
       /\ Respond(fin)

ReviewEditItem ==
  \E i \in ItemIds :
    LET fin == Run(EditItemReq(Admin, i, TRUE, 2000, FALSE, 0), Conn, 0)
    IN /\ WithinBounds(fin.c)
       /\ Respond(fin)

ReviewDeleteItem ==
  \E i \in ItemIds :
    LET fin == Run(DeleteItemReq(Admin, i), Conn, 0)
    IN /\ WithinBounds(fin.c)
       /\ Respond(fin)

ReviewUpdateStatus ==
  \E o \in OrderIds, st \in {"confirmed", "shipped", "cancelled"} :
    LET fin == Run(UpdateStatusReq(Admin, o, st), Conn, 0)
    IN /\ WithinBounds(fin.c)
       /\ Respond(fin)

\* the acknowledged id may name no order: MaxOrders + 1 never exists
AcknowledgeReview ==
  \E o \in 1..(MaxOrders + 1) :
    LET fin == Run(ReviewReq(Admin, o), Conn, 0)
    IN /\ WithinBounds(fin.c)
       /\ Respond(fin)

PendingChanges ==
  LET fin == Run(PendingChangesReq(Admin), Conn, 0)
  IN /\ WithinBounds(fin.c)
     /\ Respond(fin)

NextReview ==
  \/ ReviewCreateOrder \/ ReviewAddItem \/ ReviewEditItem \/ ReviewDeleteItem
  \/ ReviewUpdateStatus \/ AcknowledgeReview \/ PendingChanges

SpecReview == Init /\ [][NextReview]_vars

\* C13: change-log rows are append-only over submissions, merges, line edits,
\* status transitions and review acknowledgements (every earlier row is still
\* there, unchanged); an acknowledged review sets the order's pendingReview
\* flag to false and changes nothing else.
C13_Step ==
  /\ Len(order_change_logs') >= Len(order_change_logs)
  /\ SubSeq(order_change_logs', 1, Len(order_change_logs)) = order_change_logs
  /\ (last'.op = "review" /\ last'.res.status = 200) =>
       /\ order_change_logs' = order_change_logs
       /\ order_items' = order_items
       /\ products' = products
       /\ inventory_logs' = inventory_logs
       /\ Len(orders') = Len(orders)
       /\ \A o \in OrderIds :
            orders'[o] = IF o = last'.a.orderId
                         THEN [customerId |-> orders[o].customerId,
                               deliveryDate |-> orders[o].deliveryDate,
                               status |-> orders[o].status,
                               totalAmount |-> orders[o].totalAmount,
                               stockDeducted |-> orders[o].stockDeducted,
                               pendingReview |-> FALSE,
                               lastModifiedAt |-> orders[o].lastModifiedAt,
                               tripNumber |-> orders[o].tripNumber]
                         ELSE orders[o]

C13_ChangeLogAppendOnly == [][C13_Step]_vars

\* a flagged order with a change-log row has just been acknowledged
C13_Witness ==
  /\ last.op = "review" /\ last.res.status = 200
  /\ last.a.orderId \in OrderIds
  /\ ~orders[last.a.orderId].pendingReview
  /\ orders[last.a.orderId].lastModifiedAt > 0
  /\ \E n \in 1..Len(order_change_logs) : order_change_logs[n].orderId = last.a.orderId

\* C14: the pending-changes listing returns exactly the orders whose
\* pendingReview flag is set, whatever their status, each with its change-log
\* entries, ordered by lastModifiedAt descending.
C14_PendingListsEveryFlaggedOrder ==
  (last.op = "pending_changes" /\ last.res.status = 200) =>
    LET rows == last.res.items
    IN /\ {rows[n].id : n \in 1..Len(rows)} = {o \in OrderIds : orders[o].pendingReview}
       /\ \A n1, n2 \in 1..Len(rows) : n1 # n2 => rows[n1].id # rows[n2].id
       /\ \A n \in 1..Len(rows) :
            {rows[n].changes[x].id : x \in 1..Len(rows[n].changes)} =
              {x \in 1..Len(order_change_logs) : order_change_logs[x].orderId = rows[n].id}
       /\ \A n1, n2 \in 1..Len(rows) :
            n1 < n2 => orders[rows[n1].id].lastModifiedAt >= orders[rows[n2].id].lastModifiedAt

(***************************************************************************)
(* SpecImport: a supplier, its receiving batch, a restored dump of the     *)
(* batch items and invoice imports with and without period bounds, one     *)
(* request at a time.  Days 1..3; the period bounds, when given, name      *)
(* day 2.                                                                  *)
(***************************************************************************)
FullName == <<"frozen", "beef">>
PartName == <<" ", "beef">>
NoName == <<"pork">>
Blank == <<" ">>

SheetRows ==
  { <<InvoiceRow(FullName, 0, 100, 0)>>,
    <<InvoiceRow(FullName, Units(1), 100, 0)>>,
    <<InvoiceRow(Blank, Units(1), 100, 0), InvoiceRow(PartName, Units(2), 0, 5)>>,
    <<InvoiceRow(NoName, Units(1), 100, 0)>> }

\* a dump restating the batch-item rows, each with the given received quantity
DumpWithQuantities(qty) ==
  [i \in 1..Len(receiving_batch_items) |-> [receiving_batch_items[i] EXCEPT !.quantity = qty[i]]]

ImportCreateSupplier ==
  LET fin == Run(CreateSupplierReq(Admin), Conn, 0)
  IN /\ WithinBounds(fin.c)
     /\ Respond(fin)

ImportCreateBatch ==
  \E day \in 1..3 :
    LET fin == Run(CreateBatchReq(Admin, 1, D(day, 0, 0),
                                  <<[productId |-> 1, quantity |-> Units(1)]>>), Conn, 0)
    IN /\ WithinBounds(fin.c)
       /\ Respond(fin)

ImportBatchItems ==
  \E qty \in [1..Len(receiving_batch_items) -> {0, Units(2)}] :
    LET fin == Run(ImportBatchItemsReq(Admin, DumpWithQuantities(qty)), Conn, 0)
    IN /\ WithinBounds(fin.c)
       /\ Respond(fin)

ImportInvoice ==
  \E periodStart \in {0, 2}, periodEnd \in {0, 2}, rows \in SheetRows :
    LET fin == Run(ImportInvoiceReq(Admin, 1, periodStart, periodEnd, rows), Conn, 0)
    IN /\ WithinBounds(fin.c)
       /\ Respond(fin)

NextImport == ImportCreateSupplier \/ ImportCreateBatch \/ ImportBatchItems \/ ImportInvoice

SpecImport == Init /\ [][NextImport]_vars

\* the rows of a sheet that carry a product name
NamedRows(rows) == SelectSeq(rows, LAMBDA row : Trim(row.name) # <<>>)

\* C15: invoice import classifies every row with a non-empty product name:
\* auto_confirmed iff the name resolves to a product with aggregated receipts
\* whose quantity is within the epsilon of the invoice quantity; need_review
\* with matchedQty = the aggregated quantity iff it resolves, has aggregated
\* receipts and the quantities differ; unmatched with matchedQty = null iff
\* the name does not resolve or the product has no aggregated receipts.
C15_Step ==
  (last'.op = "import_invoice" /\ last'.res.status = 201) =>
    LET a == last'.a
        received == ReceivedSummary(Conn, a.supplierId, a.periodStart, a.periodEnd)
        named == NamedRows(a.rows)
        n == Len(supplier_invoice_items)
    IN /\ Len(supplier_invoice_items') = n + Len(named)
       /\ \A k \in 1..Len(named) :
            LET item == supplier_invoice_items'[n + k]
                productId == resolveProduct(Conn, named[k].name)
            IN IF productId # 0 /\ productId \in DOMAIN received
               THEN IF Abs(named[k].quantity - received[productId]) < Epsilon
                    THEN item.matchStatus = "auto_confirmed"
                    ELSE /\ item.matchStatus = "need_review"
                         /\ item.matchedQty = <<received[productId]>>
               ELSE item.matchStatus = "unmatched" /\ item.matchedQty = <<>>

C15_ImportClassifies == [][C15_Step]_vars

\* inside the period, both bounds inclusive, an omitted bound unconstrained
InPeriod(day, periodStart, periodEnd) ==
  /\ periodStart # 0 => periodStart <= day
  /\ periodEnd # 0 => day <= periodEnd

\* the received quantity of a product over the supplier's batches whose
\* received day lies inside the period; <<>> when no such batch holds it
ReceivedInPeriod(productId, supplierId, periodStart, periodEnd) ==
  LET rows == {i \in 1..Len(receiving_batch_items) :
                 /\ receiving_batch_items[i].productId = productId
                 /\ LET b == receiving_batches[receiving_batch_items[i].batchId]
                    IN /\ b.supplierId = supplierId
                       /\ InPeriod(b.receivedDate \div 24, periodStart, periodEnd)}
      RECURSIVE Sum(_)
      Sum(ids) == IF ids = {} THEN 0
                  ELSE LET i == CHOOSE x \in ids : TRUE
                       IN receiving_batch_items[i].quantity + Sum(ids \ {i})
  IN IF rows = {} THEN <<>> ELSE <<Sum(rows)>>

\* C16: the received-quantity aggregate of an invoice import covers a batch
\* of the supplier iff its received date d satisfies start <= d for a
\* supplied start and d <= end for a supplied end, both inclusive (a batch
\* received on the period's start date or end date is included).
C16_Step ==
  (last'.op = "import_invoice" /\ last'.res.status = 201) =>
    LET a == last'.a
        named == NamedRows(a.rows)
        n == Len(supplier_invoice_items)
    IN \A k \in 1..Len(named) :
         LET productId == resolveProduct(Conn, named[k].name)
         IN supplier_invoice_items'[n + k].matchedQty =
              (IF productId = 0 THEN <<>>
               ELSE ReceivedInPeriod(productId, a.supplierId, a.periodStart, a.periodEnd))

C16_PeriodBoundsInclusive == [][C16_Step]_vars

(***************************************************************************)
(* SpecInvoice: a supplier, its receiving batch, invoice imports, item     *)
(* updates and confirmations, one request at a time                        *)
(***************************************************************************)
InvoiceCreateSupplier ==
  LET fin == Run(CreateSupplierReq(Admin), Conn, 0)
  IN /\ WithinBounds(fin.c)
     /\ Respond(fin)

InvoiceCreateBatch ==
  \E day \in 2..3 :
    LET fin == Run(CreateBatchReq(Admin, 1, D(day, 0, 0),
                                  <<[productId |-> 1, quantity |-> Units(1)]>>), Conn, 0)
    IN /\ WithinBounds(fin.c)
       /\ Respond(fin)

InvoiceImport ==
  \E periodEnd \in {0, 2},
     rows \in { <<InvoiceRow(FullName, Units(1), 100, 0)>>,
                <<InvoiceRow(NoName, Units(1), 100, 0), InvoiceRow(FullName, Units(2), 100, 0)>> } :
    LET fin == Run(ImportInvoiceReq(Admin, 1, 0, periodEnd, rows), Conn, 0)
    IN /\ WithinBounds(fin.c)
       /\ Respond(fin)

UpdateInvoiceItem ==
  \E v \in 1..Len(supplier_invoices), i \in 1..Len(supplier_invoice_items) :
    LET fin == Run(UpdateInvoiceItemReq(Admin, v, i, "ignored"), Conn, 0)
    IN /\ WithinBounds(fin.c)
       /\ Respond(fin)

ConfirmInvoice ==
  \E v \in 1..(Len(supplier_invoices) + 1) :
    LET fin == Run(ConfirmInvoiceReq(Admin, v), Conn, 0)
    IN /\ WithinBounds(fin.c)
       /\ Respond(fin)

NextInvoice ==
  \/ InvoiceCreateSupplier \/ InvoiceCreateBatch \/ InvoiceImport
  \/ UpdateInvoiceItem \/ ConfirmInvoice

SpecInvoice == Init /\ [][NextInvoice]_vars

\* the items of an invoice, read from a supplier_invoice_items table
ItemsOfInvoice(table, v) == {i \in 1..Len(table) : table[i].invoiceId = v}

\* C17: after a confirm-invoice request, every item of the invoice that was
\* auto_confirmed or need_review is manual_confirmed, its other items keep
\* their match status, none is left in {auto_confirmed, need_review}, the
\* invoice is confirmed iff no item is outside {manual_confirmed, ignored} and
\* partial otherwise, and the items of other invoices are unchanged.
C17_Step ==
  (last'.op = "confirm_invoice" /\ last'.res.status = 200) =>
    LET v == last'.a.invoiceId
    IN /\ Len(supplier_invoice_items') = Len(supplier_invoice_items)
       /\ \A i \in 1..Len(supplier_invoice_items) :
            LET before == supplier_invoice_items[i]
                after == supplier_invoice_items'[i]
            IN IF before.invoiceId = v /\ before.matchStatus \in {"auto_confirmed", "need_review"}
               THEN /\ after.matchStatus = "manual_confirmed"
                    /\ after.invoiceId = v
                    /\ after.productId = before.productId
                    /\ after.quantity = before.quantity
                    /\ after.matchedQty = before.matchedQty
               ELSE after = before
       /\ \A i \in ItemsOfInvoice(supplier_invoice_items', v) :
            supplier_invoice_items'[i].matchStatus \notin {"auto_confirmed", "need_review"}
       /\ Len(supplier_invoices') = Len(supplier_invoices)
       /\ supplier_invoices'[v].status \in {"confirmed", "partial"}
       /\ supplier_invoices'[v].status = "confirmed" <=>
            \A i \in ItemsOfInvoice(supplier_invoice_items', v) :
              supplier_invoice_items'[i].matchStatus \in {"manual_confirmed", "ignored"}
       /\ \A w \in 1..Len(supplier_invoices) : w # v => supplier_invoices'[w] = supplier_invoices[w]

C17_ConfirmPromotesItems == [][C17_Step]_vars

\* an invoice left partial: a promoted item next to an unmatched one, with
\* another invoice in the store
C17_Witness ==
  /\ last.op = "confirm_invoice" /\ last.res.status = 200
  /\ Len(supplier_invoices) = 2
  /\ supplier_invoices[last.a.invoiceId].status = "partial"
  /\ \E i, j \in ItemsOfInvoice(supplier_invoice_items, last.a.invoiceId) :
       /\ supplier_invoice_items[i].matchStatus = "manual_confirmed"
       /\ supplier_invoice_items[i].matchedQty # <<>>
       /\ supplier_invoice_items[j].matchStatus = "unmatched"

\* C18: a confirm-invoice request sets reconcileStatus = reconciled on a
\* receiving batch iff the invoice's resulting status is confirmed, the batch
\* belongs to the invoice's supplier and its received date lies inside the
\* invoice's period; every other batch keeps its reconciliation status.
C18_Step ==
  (last'.op = "confirm_invoice" /\ last'.res.status = 200) =>
    LET invoice == supplier_invoices'[last'.a.invoiceId]
    IN /\ Len(receiving_batches') = Len(receiving_batches)
       /\ \A b \in 1..Len(receiving_batches) :
            receiving_batches'[b].reconcileStatus =
              IF /\ invoice.status = "confirmed"
                 /\ receiving_batches[b].supplierId = invoice.supplierId
                 /\ InPeriod(receiving_batches[b].receivedDate \div 24,
                             invoice.periodStart, invoice.periodEnd)
              THEN "reconciled"
              ELSE receiving_batches[b].reconcileStatus

C18_ConfirmReconcilesBatches == [][C18_Step]_vars

(***************************************************************************)
(* SpecBatch: suppliers, inbound stock and receiving batches that may name *)
(* a missing supplier or a missing product, one request at a time          *)
(***************************************************************************)
MissingProduct == 9

BatchItems ==
  { <<[productId |-> 1, quantity |-> Units(1)]>>,
    <<[productId |-> MissingProduct, quantity |-> Units(1)]>>,
    <<[productId |-> 1, quantity |-> Units(1)], [productId |-> 2, quantity |-> Units(2)]>>,
    <<[productId |-> 1, quantity |-> Units(1)], [productId |-> MissingProduct, quantity |-> Units(1)]>>,
    <<[productId |-> MissingProduct, quantity |-> Units(1)], [productId |-> 2, quantity |-> Units(1)]>> }

BatchCreateSupplier ==
  LET fin == Run(CreateSupplierReq(Admin), Conn, 0)
  IN /\ WithinBounds(fin.c)
     /\ Respond(fin)

BatchInbound ==
  \E p \in {1, 2} :
    LET fin == Run(InventoryReq("inbound", Admin, p, 1, 0), Conn, 0)
    IN /\ WithinBounds(fin.c)
       /\ Respond(fin)

BatchCreate ==
  \E supplierId \in 1..(MaxSuppliers + 1), day \in 1..2, items \in BatchItems :
    LET fin == Run(CreateBatchReq(Admin, supplierId, D(day, 0, 0), items), Conn, 0)
    IN /\ WithinBounds(fin.c)
       /\ Respond(fin)

NextBatch == BatchCreateSupplier \/ BatchInbound \/ BatchCreate

SpecBatch == Init /\ [][NextBatch]_vars

\* C19: a create-batch request naming a non-existent supplier, or a
\* non-existent product at any position of its item list, fails with a
\* not-found error and leaves the store unchanged: no batch row, no batch
\* item, no stock increment and no inbound movement record of the request
\* persists, also for the items before the missing product.
C19_Step ==
  LET a == last'.a
  IN (/\ last'.op = "create_batch"
      /\ \/ a.supplierId \notin 1..suppliers
         \/ \E k \in 1..Len(a.items) : a.items[k].productId \notin DOMAIN products) =>
       /\ last'.res.status = 404
       /\ last'.res.code = "NOT_FOUND"
       /\ products' = products
       /\ inventory_logs' = inventory_logs
       /\ receiving_batches' = receiving_batches
       /\ receiving_batch_items' = receiving_batch_items
       /\ suppliers' = suppliers
       /\ ~inTx'

C19_MissingRowRollsBackBatch == [][C19_Step]_vars

\* a batch refused for its second item, after the first item's product was found
C19_Witness ==
  /\ last.op = "create_batch" /\ last.res.status = 404
  /\ last.a.supplierId \in 1..suppliers
  /\ Len(last.a.items) = 2
  /\ last.a.items[1].productId \in DOMAIN products
  /\ last.a.items[2].productId \notin DOMAIN products
  /\ receiving_batches = <<>>
  /\ products[1].stock > 0

(***************************************************************************)
(* SpecAuth: the admin-only operations called by the admin and by a        *)
(* customer, one request at a time                                         *)
(***************************************************************************)
\* the admin's requests build the store; every admin-only operation is then
\* also requested by a customer
Callers == {Admin, Customer(1)}

AuthCreateOrder ==
  LET fin == Run(CreateOrderReq(Customer(1), D(1, 0, 0), <<Line(1, 1000)>>, 1), Conn, 0)
  IN /\ WithinBounds(fin.c)
     /\ Respond(fin)

AuthUpdateStatus ==
  \E caller \in Callers, o \in OrderIds :
    LET fin == Run(UpdateStatusReq(caller, o, "shipped"), Conn, 0)
    IN /\ WithinBounds(fin.c)
       /\ Respond(fin)

AuthTrip ==
  \E o \in OrderIds :
    LET fin == Run(TripReq(Customer(1), o, 7), Conn, 0)
    IN /\ WithinBounds(fin.c)
       /\ Respond(fin)

AuthAddItem ==
  \E o \in OrderIds :
    LET fin == Run(AddItemReq(Customer(1), o, 1, 1000, FALSE, 0), Conn, 0)
    IN /\ WithinBounds(fin.c)
       /\ Respond(fin)

AuthEditItem ==
  \E i \in ItemIds :
    LET fin == Run(EditItemReq(Customer(1), i, TRUE, 2000, FALSE, 0), Conn, 0)
    IN /\ WithinBounds(fin.c)
       /\ Respond(fin)

AuthDeleteItem ==
  \E i \in ItemIds :
    LET fin == Run(DeleteItemReq(Customer(1), i), Conn, 0)
    IN /\ WithinBounds(fin.c)
       /\ Respond(fin)

AuthReview ==
  \E o \in OrderIds :
    LET fin == Run(ReviewReq(Customer(1), o), Conn, 0)
    IN /\ WithinBounds(fin.c)
       /\ Respond(fin)

AuthPendingChanges ==
  LET fin == Run(PendingChangesReq(Customer(1)), Conn, 0)
  IN /\ WithinBounds(fin.c)
     /\ Respond(fin)

AuthInventory ==
  \E op \in {"inbound", "returns", "damages"} :
    LET fin == Run(InventoryReq(op, Customer(1), 1, 1, 0), Conn, 0)
    IN /\ WithinBounds(fin.c)
       /\ Respond(fin)

AuthSetStock ==
  LET fin == Run(SetStockReq(Customer(1), 1, Units(2)), Conn, 0)
  IN /\ WithinBounds(fin.c)
     /\ Respond(fin)

AuthCreateSupplier ==
  LET fin == Run(CreateSupplierReq(Admin), Conn, 0)
  IN /\ WithinBounds(fin.c)
     /\ Respond(fin)

AuthCreateBatch ==
  \E caller \in Callers :
    LET fin == Run(CreateBatchReq(caller, 1, D(1, 0, 0),
                                  <<[productId |-> 1, quantity |-> Units(1)]>>), Conn, 0)
    IN /\ WithinBounds(fin.c)
       /\ Respond(fin)

AuthImportInvoice ==
  \E caller \in Callers :
    LET fin == Run(ImportInvoiceReq(caller, 1, 0, 0, <<InvoiceRow(FullName, Units(1), 100, 0)>>),
                   Conn, 0)
    IN /\ WithinBounds(fin.c)
       /\ Respond(fin)

AuthUpdateInvoiceItem ==
  \E i \in 1..Len(supplier_invoice_items) :
    LET fin == Run(UpdateInvoiceItemReq(Customer(1), supplier_invoice_items[i].invoiceId, i,
                                        "ignored"), Conn, 0)
    IN /\ WithinBounds(fin.c)
       /\ Respond(fin)

AuthConfirmInvoice ==
  \E v \in 1..Len(supplier_invoices) :
    LET fin == Run(ConfirmInvoiceReq(Customer(1), v), Conn, 0)
    IN /\ WithinBounds(fin.c)
       /\ Respond(fin)

NextAuth ==
  \/ AuthCreateOrder \/ AuthUpdateStatus \/ AuthTrip \/ AuthAddItem \/ AuthEditItem
  \/ AuthDeleteItem \/ AuthReview \/ AuthPendingChanges \/ AuthInventory \/ AuthSetStock
  \/ AuthCreateSupplier \/ AuthCreateBatch \/ AuthImportInvoice \/ AuthUpdateInvoiceItem
  \/ AuthConfirmInvoice

SpecAuth == Init /\ [][NextAuth]_vars

AdminOnlyOps ==
  {"status", "trip", "add_item", "edit_item", "delete_item", "review", "pending_changes",
   "create_batch", "import_invoice", "confirm_invoice", "update_invoice_item",
   "inbound", "returns", "damages", "set_stock"}

\* C20: for a caller whose role is not admin, each admin-only operation
\* (status transition, trip update, add/edit/delete item, review
\* acknowledgement, pending-changes listing, batch creation, invoice import,
\* invoice confirm, invoice item update, inventory operations) answers 403 and
\* leaves the entire store unchanged.
C20_Step ==
  (last'.op \in AdminOnlyOps /\ last'.role # "admin") =>
    /\ last'.res.status = 403
    /\ Tables' = Tables
    /\ inTx' = inTx

C20_NonAdminForbidden == [][C20_Step]_vars

\* a customer refused the confirmation of a pending invoice that holds an item
C20_Witness ==
  /\ last.op = "confirm_invoice" /\ last.role = "customer" /\ last.res.status = 403
  /\ last.a.invoiceId \in 1..Len(supplier_invoices)
  /\ supplier_invoices[last.a.invoiceId].status = "pending"
  /\ \E i \in 1..Len(supplier_invoice_items) :
       /\ supplier_invoice_items[i].invoiceId = last.a.invoiceId
       /\ supplier_invoice_items[i].matchStatus = "auto_confirmed"
(***************************************************************************)
(* SpecPrice: the item endpoints of one customer's orders while the price  *)
(* of the product they name is changed through PATCH /products/:id         *)
(***************************************************************************)
PriceCreateOrder ==
  LET fin == Run(CreateOrderReq(Customer(1), D(1, 0, 0), <<Line(1, 550)>>, 0), Conn, 0)
  IN /\ WithinBounds(fin.c)
     /\ Respond(fin)

PriceUpdateStatus ==
  \E o \in OrderIds :
    LET fin == Run(UpdateStatusReq(Admin, o, "shipped"), Conn, 0)
    IN /\ WithinBounds(fin.c)
       /\ Respond(fin)

PriceAddItem ==
  \E o \in OrderIds, hasPrice \in BOOLEAN :
    LET fin == Run(AddItemReq(Admin, o, 1, 550, hasPrice, 1005), Conn, 0)
    IN /\ WithinBounds(fin.c)
       /\ Respond(fin)

PriceEditItem ==
  \E i \in ItemIds, hasQty \in BOOLEAN :
    LET fin == Run(EditItemReq(Admin, i, hasQty, 1000, ~hasQty, 1005), Conn, 0)
    IN /\ WithinBounds(fin.c)
       /\ Respond(fin)

PriceDeleteItem ==
  \E i \in ItemIds :
    LET fin == Run(DeleteItemReq(Admin, i), Conn, 0)
    IN /\ WithinBounds(fin.c)
       /\ Respond(fin)

UpdateProductPrice ==
  \E price \in {SeedProduct(1).price, 6125} :
    LET fin == Run(UpdateProductReq(Admin, 1, FALSE, "", TRUE, price), Conn, 0)
    IN /\ WithinBounds(fin.c)
       /\ Respond(fin)

NextPrice ==
  \/ PriceCreateOrder \/ PriceUpdateStatus \/ PriceAddItem \/ PriceEditItem
  \/ PriceDeleteItem \/ UpdateProductPrice

SpecPrice == Init /\ [][NextPrice]_vars

\* the request of this step carries an explicit price for line item i
ExplicitPrice(rq, i) ==
  \/ rq.op = "edit_item" /\ rq.a.hasPrice /\ rq.a.itemId = i
  \/ rq.op = "add_item" /\ rq.a.hasPrice

C21_Step ==
  LET rq == last' IN
  /\ rq.op = "update_product" => order_items' = order_items /\ orders' = orders
  /\ \A i \in ItemIds' :
       IF i \in ItemIds
       THEN ExplicitPrice(rq, i) \/ order_items'[i].unitPrice = order_items[i].unitPrice
       ELSE order_items'[i].unitPrice =
              IF ExplicitPrice(rq, i) THEN rq.a.unitPrice
              ELSE products[order_items'[i].productId].price
  /\ \A o \in OrderIds' :
       \/ o \in OrderIds /\ orders'[o].totalAmount = orders[o].totalAmount
       \/ orders'[o].totalAmount = Rounded2(LineSum(o, ItemIds))'

\* C21: a line item's unitPrice is the product's price when create-order or a
\* merge made the item (or the price an admin gave on add or edit); a later
\* change of the product's price changes no line item's unitPrice and no
\* order's totalAmount, and a total recalculated by a later item operation is
\* still the sum over the stored unit prices.
C21_PriceSnapshot == [][C21_Step]_vars

\* an item operation has just recalculated the total of an order that holds
\* a line created at the old price, after the product's price was raised
C21_Witness ==
  /\ last.op \in {"add_item", "edit_item", "delete_item"}
  /\ last.res.status \in {200, 201}
  /\ products[1].price = 6125
  /\ \E i \in ItemIds :
       /\ order_items[i].orderId = last.res.orderId
       /\ order_items[i].productId = 1
       /\ order_items[i].unitPrice = SeedProduct(1).price
  /\ orders[last.res.orderId].totalAmount = Rounded2(LineSum(last.res.orderId, ItemIds))

(***************************************************************************)
(* SpecUnit: quantities of every shape submitted through create-order,     *)
(* add-item and edit-item while PATCH /products/:id changes units.         *)
(* "piece" is a unit the product form offers that is neither "kg" nor one  *)
(* of boxUnits.                                                            *)
(***************************************************************************)
\* 0.55, 0.555, 1.5 and 2 units
Quantities == {550, 555, 1500, 2000}

UnitCreateOrder ==
  \E p \in {1, 2}, q \in Quantities :
    LET fin == Run(CreateOrderReq(Customer(1), D(1, 0, 0), <<Line(p, q)>>, 0), Conn, 0)
    IN /\ WithinBounds(fin.c)
       /\ Respond(fin)

UnitAddItem ==
  \E o \in OrderIds, p \in {1, 2}, q \in Quantities :
    LET fin == Run(AddItemReq(Admin, o, p, q, FALSE, 0), Conn, 0)
    IN /\ WithinBounds(fin.c)
       /\ Respond(fin)

UnitEditItem ==
  \E i \in ItemIds, q \in Quantities :
    LET fin == Run(EditItemReq(Admin, i, TRUE, q, FALSE, 0), Conn, 0)
    IN /\ WithinBounds(fin.c)
       /\ Respond(fin)

UpdateProductUnit ==
  \E unit \in {"kg", "box", "piece"} :
    LET fin == Run(UpdateProductReq(Admin, 1, TRUE, unit, FALSE, 0), Conn, 0)
    IN /\ WithinBounds(fin.c)
       /\ Respond(fin)

NextUnit == UnitCreateOrder \/ UnitAddItem \/ UnitEditItem \/ UpdateProductUnit

SpecUnit == Init /\ [][NextUnit]_vars

\* the unit granularity rule: a container unit takes a positive integer, any
\* other unit a positive quantity of at most two decimals
Granular(unit, qty) ==
  /\ qty > 0
  /\ IF unit \in {"box", "bucket", "bag"} THEN qty % 1000 = 0 ELSE qty % 10 = 0

\* the product and the quantity a quantity-carrying request is about
QtyProduct(rq) ==
  CASE rq.op = "create_order" -> rq.a.items[1].productId
    [] rq.op = "add_item" -> rq.a.productId
    [] rq.op = "edit_item" -> order_items[rq.a.itemId].productId
QtyOf(rq) ==
  IF rq.op = "create_order" THEN rq.a.items[1].qtyOrdered ELSE rq.a.qtyOrdered

C22_Step ==
  LET rq == last' IN
  rq.op \in {"create_order", "add_item", "edit_item"} =>
    /\ rq.res.status \in {200, 201} <=> Granular(products[QtyProduct(rq)].unit, QtyOf(rq))
    /\ rq.res.status \notin {200, 201} => rq.res.code = "INVALID_QUANTITY"

\* C22: create-order, add-item and edit-item each accept a quantity for a
\* product exactly when the quantity satisfies the granularity rule of the
\* product's unit (box, bucket, bag: a positive integer; any other unit: more
\* than 0 with at most two decimals), so the three paths decide alike.
C22_QuantityRule == [][C22_Step]_vars

\* C23: in every reachable state every line item's qtyOrdered satisfies the
\* granularity rule of its product's current unit, product updates that change
\* the unit included.
C23_ItemsGranular ==
  \A i \in ItemIds : Granular(products[order_items[i].productId].unit, order_items[i].qtyOrdered)

(***************************************************************************)
(* SpecConcBatch: batch creations for one supplier and one received day in *)
(* flight together with a status transition, on the store as seeded plus   *)
(* one supplier.  The DDL of receiving_batches is not part of the sources: *)
(* an INSERT of a batch number that is already stored is explored both as  *)
(* accepted and as rejected by a unique index.                             *)
(***************************************************************************)
InitOneSupplier == InitWith([EmptyTables EXCEPT !.suppliers = 1])

ConcStartBatch ==
  \E s \in 1..MaxSlots, p \in {1, MissingProduct} :
    /\ FreeSlot(s)
    /\ reqs' = [reqs EXCEPT ![s] =
                  CreateBatchReq(Admin, 1, D(1, 0, 0), <<[productId |-> p, quantity |-> Units(1)]>>)]
    /\ UNCHANGED <<products, orders, order_items, order_change_logs, inventory_logs, suppliers,
                   receiving_batches, receiving_batch_items, supplier_invoices,
                   supplier_invoice_items, inTx, snap>>

ConcBatchStartStatus ==
  \E s \in 1..MaxSlots :
    /\ FreeSlot(s)
    /\ reqs' = [reqs EXCEPT ![s] = UpdateStatusReq(Admin, 1, "shipped")]
    /\ UNCHANGED <<products, orders, order_items, order_change_logs, inventory_logs, suppliers,
                   receiving_batches, receiving_batch_items, supplier_invoices,
                   supplier_invoice_items, inTx, snap>>

\* the statement request rq is about to issue inserts a batch number that a
\* stored batch already carries
DuplicateBatchNo(rq) ==
  /\ rq.op = "create_batch" /\ rq.pc = "insert_batch"
  /\ \E b \in 1..Len(receiving_batches) :
       receiving_batches[b].batchNo = [day |-> BatchDay(rq.a.receivedDate), seq |-> rq.l.seq]

ConcBatchStep ==
  \E s \in 1..MaxSlots, rejected \in BOOLEAN :
    /\ reqs[s].pc # "done"
    /\ rejected => DuplicateBatchNo(reqs[s])
    /\ LET st == Exec(reqs[s], Conn, rejected)
       IN /\ Install(st.c)
          /\ reqs' = [reqs EXCEPT ![s] = st.r]

NextConcBatch == ConcStartBatch \/ ConcBatchStartStatus \/ ConcBatchStep

SpecConcBatch == InitOneSupplier /\ [][NextConcBatch]_vars

\* C24: no two receiving batches carry the same batch number, and the k-th
\* batch of a calendar day carries sequence number k, also when the
\* statements of batch creations and of other compound operations interleave
\* on the shared handle (read once every request has answered).
C24_BatchNumbersUniqueAndDense ==
  AllDone =>
    LET b == Persisted.receiving_batches IN
    /\ \A i, j \in 1..Len(b) : i # j => b[i].batchNo # b[j].batchNo
    /\ \A i \in 1..Len(b) :
         b[i].batchNo.seq = Cardinality({j \in 1..i : b[j].batchNo.day = b[i].batchNo.day})

(***************************************************************************)
(* SpecConcItems: item operations and a customer's merge in flight         *)
(* together with each other and with a status transition of the order they *)
(* name, on the store of SpecConc (order 1 of customer 1 with one line)    *)
(***************************************************************************)
ConcItemsStartStatus ==
  \E s \in 1..MaxSlots, st \in {"shipped", "cancelled"} :
    /\ FreeSlot(s)
    /\ reqs' = [reqs EXCEPT ![s] = UpdateStatusReq(Admin, 1, st)]
    /\ UNCHANGED <<products, orders, order_items, order_change_logs, inventory_logs, suppliers,
                   receiving_batches, receiving_batch_items, supplier_invoices,
                   supplier_invoice_items, inTx, snap>>

ConcStartAddItem ==
  \E s \in 1..MaxSlots :
    /\ FreeSlot(s)
    /\ reqs' = [reqs EXCEPT ![s] = AddItemReq(Admin, 1, 1, 550, FALSE, 0)]
    /\ UNCHANGED <<products, orders, order_items, order_change_logs, inventory_logs, suppliers,
                   receiving_batches, receiving_batch_items, supplier_invoices,
                   supplier_invoice_items, inTx, snap>>

ConcStartEditItem ==
  \E s \in 1..MaxSlots :
    /\ FreeSlot(s)
    /\ reqs' = [reqs EXCEPT ![s] = EditItemReq(Admin, 1, TRUE, 2000, FALSE, 0)]
    /\ UNCHANGED <<products, orders, order_items, order_change_logs, inventory_logs, suppliers,
                   receiving_batches, receiving_batch_items, supplier_invoices,
                   supplier_invoice_items, inTx, snap>>

ConcStartDeleteItem ==
  \E s \in 1..MaxSlots :
    /\ FreeSlot(s)
    /\ reqs' = [reqs EXCEPT ![s] = DeleteItemReq(Admin, 1)]
    /\ UNCHANGED <<products, orders, order_items, order_change_logs, inventory_logs, suppliers,
                   receiving_batches, receiving_batch_items, supplier_invoices,
                   supplier_invoice_items, inTx, snap>>

ConcStartMerge ==
  \E s \in 1..MaxSlots :
    /\ FreeSlot(s)
    /\ reqs' = [reqs EXCEPT ![s] = CreateOrderReq(Customer(1), D(1, 0, 0), <<Line(1, 550)>>, 0)]
    /\ UNCHANGED <<products, orders, order_items, order_change_logs, inventory_logs, suppliers,
                   receiving_batches, receiving_batch_items, supplier_invoices,
                   supplier_invoice_items, inTx, snap>>

ConcItemsStep ==
  \E s \in 1..MaxSlots :
    /\ reqs[s].pc # "done"
    /\ LET st == Exec(reqs[s], Conn, FALSE)
       IN /\ Install(st.c)
          /\ reqs' = [reqs EXCEPT ![s] = st.r]

NextConcItems ==
  \/ ConcItemsStartStatus \/ ConcStartAddItem \/ ConcStartEditItem \/ ConcStartDeleteItem
  \/ ConcStartMerge \/ ConcItemsStep

SpecConcItems == InitConc /\ [][NextConcItems]_vars

\* the line items of order o in an order_items table
LinesOf(table, o) == {table[i] : i \in {x \in 1..Len(table) : table[x] # NoRow /\ table[x].orderId = o}}

\* order o is locked, for the handle and for a reader of the database file
Locked(o) ==
  /\ orders[o].status \in lockedStatuses
  /\ o <= Len(Persisted.orders) /\ Persisted.orders[o].status \in lockedStatuses

\* a statement that is not BEGIN, COMMIT or ROLLBACK changes the lines of order o
WritesLinesOf(o) == inTx' = inTx /\ LinesOf(order_items', o) # LinesOf(order_items, o)

C25_Step == \A o \in OrderIds : WritesLinesOf(o) => ~Locked(o)

\* C25: however an add-item, edit-item, delete-item or customer merge
\* interleaves with a status transition of the same order, no line item is
\* inserted into, changed in or removed from an order that is shipped,
\* completed or cancelled at the moment the write is applied.
C25_NoWriteToLockedOrder == [][C25_Step]_vars

\* exactly two requests were made, both item operations, and both have answered
TwoItemOpsReturned ==
  /\ \A s \in {1, 2} :
       /\ reqs[s].op \in {"add_item", "edit_item", "delete_item", "create_order"}
       /\ reqs[s].pc = "done"
  /\ reqs[3].op = "none"
  /\ ~inTx

\* C26: when two item operations on one order (add-item, edit-item,
\* delete-item or a customer's merge) overlap with their statements
\* interleaved, then once both have answered the order's totalAmount is the
\* rounded sum of qtyOrdered x unitPrice over its current line items.
C26_NoStaleTotal ==
  TwoItemOpsReturned =>
    \A o \in OrderIds : orders[o].totalAmount = Rounded2(LineSum(o, ItemIds))

(***************************************************************************)
(* SpecPick: the order endpoints with the picking-status update, one       *)
(* request at a time, on the store as seeded plus 2 units of product 1     *)
(***************************************************************************)
InitPick == InitWith([EmptyTables EXCEPT !.products[1].stock = Units(2)])

PickCreateOrder ==
  LET fin == Run(CreateOrderReq(Customer(1), D(1, 0, 0), <<Line(1, 1000)>>, 0), Conn, 0)
  IN /\ WithinBounds(fin.c)
     /\ Respond(fin)

PickAddItem ==
  \E o \in OrderIds :
    LET fin == Run(AddItemReq(Admin, o, 1, 1000, FALSE, 0), Conn, 0)
    IN /\ WithinBounds(fin.c)
       /\ Respond(fin)

PickEditItem ==
  \E i \in ItemIds :
    LET fin == Run(EditItemReq(Admin, i, TRUE, 2000, FALSE, 0), Conn, 0)
    IN /\ WithinBounds(fin.c)
       /\ Respond(fin)

PickDeleteItem ==
  \E i \in ItemIds :
    LET fin == Run(DeleteItemReq(Admin, i), Conn, 0)
    IN /\ WithinBounds(fin.c)
       /\ Respond(fin)

PickItemStatus ==
  \E i \in ItemIds, hasPicked \in BOOLEAN, flag \in BOOLEAN :
    LET fin == Run(ItemStatusReq(Admin, i, hasPicked, flag, ~hasPicked, flag), Conn, 0)
    IN /\ WithinBounds(fin.c)
       /\ Respond(fin)

PickUpdateStatus ==
  \E o \in OrderIds, st \in {"shipped", "completed"} :
    LET fin == Run(UpdateStatusReq(Admin, o, st), Conn, 0)
    IN /\ WithinBounds(fin.c)
       /\ Respond(fin)

NextPick ==
  \/ PickCreateOrder \/ PickAddItem \/ PickEditItem \/ PickDeleteItem
  \/ PickItemStatus \/ PickUpdateStatus

SpecPick == InitPick /\ [][NextPick]_vars

C27_Step ==
  LET rq == last' IN
  /\ \A i \in ItemIds' : order_items'[i].qtyPicked = 0
  /\ (rq.op = "status" /\ rq.res.status = 200 /\ rq.a.status \in {"shipped", "completed"}) =>
       /\ products' = products
       /\ inventory_logs' = inventory_logs
       /\ orders'[rq.a.orderId].stockDeducted

\* C27: from a store with no order items, through create/merge, add, edit and
\* delete item, the picking-status update and status transitions every line
\* item's qtyPicked stays 0; so a transition into shipped or completed changes
\* no product's stock and writes no outbound movement record, and still sets
\* stockDeducted.
C27_NothingPickedNothingDeducted == [][C27_Step]_vars

\* an order with a line marked picked has just been shipped or completed
C27_Witness ==
  /\ last.op = "status" /\ last.res.status = 200
  /\ last.a.status \in {"shipped", "completed"}
  /\ orders[last.a.orderId].stockDeducted
  /\ \E i \in ItemIds :
       /\ order_items[i].orderId = last.a.orderId
       /\ order_items[i].picked /\ order_items[i].status = "picked"
  /\ inventory_logs = <<>>

(***************************************************************************)
(* SpecLedger: inbound, return, damage, batch creation and fulfilment, one *)
(* request at a time, from zero stock and no movement records (no manual   *)
(* stock edit, no backup import)                                           *)
(***************************************************************************)
LedgerInventory ==
  \E op \in {"inbound", "returns", "damages"}, p \in {1, 2} :
    LET fin == Run(InventoryReq(op, Admin, p, 1, 0), Conn, 0)
    IN /\ WithinBounds(fin.c)
       /\ Respond(fin)

LedgerCreateSupplier ==
  LET fin == Run(CreateSupplierReq(Admin), Conn, 0)
  IN /\ WithinBounds(fin.c)
     /\ Respond(fin)

LedgerCreateBatch ==
  \E items \in BatchItems \cup {<<[productId |-> 1, quantity |-> Units(1)],
                                   [productId |-> 1, quantity |-> Units(2)]>>} :
    LET fin == Run(CreateBatchReq(Admin, 1, D(1, 0, 0), items), Conn, 0)
    IN /\ WithinBounds(fin.c)
       /\ Respond(fin)

LedgerCreateOrder ==
  LET fin == Run(CreateOrderReq(Customer(1), D(1, 0, 0), <<Line(1, 1000)>>, 0), Conn, 0)
  IN /\ WithinBounds(fin.c)
     /\ Respond(fin)

LedgerItemStatus ==
  \E i \in ItemIds :
    LET fin == Run(ItemStatusReq(Admin, i, TRUE, TRUE, FALSE, FALSE), Conn, 0)
    IN /\ WithinBounds(fin.c)
       /\ Respond(fin)

LedgerUpdateStatus ==
  \E o \in OrderIds, st \in {"shipped", "completed"} :
    LET fin == Run(UpdateStatusReq(Admin, o, st), Conn, 0)
    IN /\ WithinBounds(fin.c)
       /\ Respond(fin)

NextLedger ==
  \/ LedgerInventory \/ LedgerCreateSupplier \/ LedgerCreateBatch
  \/ LedgerCreateOrder \/ LedgerItemStatus \/ LedgerUpdateStatus

SpecLedger == Init /\ [][NextLedger]_vars

\* the signed sum of the quantities of the movement records of product p
\* among the first n records: in and return count up, out and damage down
RECURSIVE Balance(_, _, _)
Balance(logs, p, n) ==
  IF n = 0 THEN 0
  ELSE Balance(logs, p, n - 1)
       + (IF logs[n].productId # p THEN 0
          ELSE IF logs[n].type \in {"in", "return"} THEN logs[n].quantity
          ELSE 0 - logs[n].quantity)

\* the quantities a batch request credits to product p
RECURSIVE Credited(_, _)
Credited(items, p) ==
  IF items = <<>> THEN 0
  ELSE (IF Head(items).productId = p THEN Head(items).quantity ELSE 0) + Credited(Tail(items), p)

C28_Step ==
  LET rq == last'
      n == Len(inventory_logs)
  IN
  /\ \A p \in ProductIds : products'[p].stock = Balance(inventory_logs', p, Len(inventory_logs'))
  /\ (rq.op = "create_batch" /\ rq.res.status = 201) =>
       /\ \A p \in ProductIds : products'[p].stock = products[p].stock + Credited(rq.a.items, p)
       /\ Len(inventory_logs') = n + Len(rq.a.items)
       /\ \A k \in 1..Len(rq.a.items) :
            /\ inventory_logs'[n + k].type = "in"
            /\ inventory_logs'[n + k].productId = rq.a.items[k].productId
            /\ inventory_logs'[n + k].quantity = rq.a.items[k].quantity
            /\ inventory_logs'[n + k].batchId = Len(receiving_batches')
       /\ \A k \in 1..n : inventory_logs'[k] = inventory_logs[k]

EditImportInvoice ==
  LET fin == Run(ImportInvoiceReq(Admin, 1, 0, 0, <<InvoiceRow(FullName, Units(1), 100, 0)>>),
                 Conn, 0)
  IN /\ WithinBounds(fin.c)
     /\ Respond(fin)

EditInvoiceItem ==
  \E v \in 1..Len(supplier_invoices), i \in 1..Len(supplier_invoice_items),
     matchStatus \in matchStatuses :
    LET fin == Run(UpdateInvoiceItemReq(Admin, v, i, matchStatus), Conn, 0)
    IN /\ WithinBounds(fin.c)
       /\ Respond(fin)

EditConfirmInvoice ==
  \E v \in 1..Len(supplier_invoices) :
    LET fin == Run(ConfirmInvoiceReq(Admin, v), Conn, 0)
    IN /\ WithinBounds(fin.c)
       /\ Respond(fin)

NextInvoiceEdit == EditImportInvoice \/ EditInvoiceItem \/ EditConfirmInvoice

SpecInvoiceEdit == InitOneSupplier /\ [][NextInvoiceEdit]_vars

\* C29: in every reachable state an invoice whose status is confirmed has no
\* item whose match status is outside {manual_confirmed, ignored}, also after
\* an update-invoice-item on an invoice that is already confirmed.
C29_ConfirmedInvoiceHasNoOpenItem ==
  \A v \in 1..Len(supplier_invoices) :
    supplier_invoices[v].status = "confirmed" =>
      \A i \in ItemsOfInvoice(supplier_invoice_items, v) :
        supplier_invoice_items[i].matchStatus \in {"manual_confirmed", "ignored"}

(***************************************************************************)
(* SpecOwner: two customers at the order endpoints open to them and at an  *)
(* admin-only one, one request at a time                                   *)
(***************************************************************************)
OwnerCreateOrder ==
  \E n \in {1, 2}, bodyCustomerId \in {0, 1} :
    LET fin == Run(CreateOrderReq(Customer(n), D(1, 0, 0), <<Line(1, 1000)>>, bodyCustomerId),
                   Conn, 0)
    IN /\ WithinBounds(fin.c)
       /\ Respond(fin)

OwnerItemStatus ==
  \E n \in {1, 2}, i \in ItemIds, hasPicked \in BOOLEAN, flag \in BOOLEAN :
    LET fin == Run(ItemStatusReq(Customer(n), i, hasPicked, flag, ~hasPicked, flag), Conn, 0)
    IN /\ WithinBounds(fin.c)
       /\ Respond(fin)

OwnerDeleteItem ==
  \E n \in {1, 2}, i \in ItemIds :
    LET fin == Run(DeleteItemReq(Customer(n), i), Conn, 0)
    IN /\ WithinBounds(fin.c)
       /\ Respond(fin)

NextOwner == OwnerCreateOrder \/ OwnerItemStatus \/ OwnerDeleteItem

SpecOwner == Init /\ [][NextOwner]_vars

C30_Step ==
  LET rq == last' IN
  rq.role = "customer" =>
    /\ \A o \in OrderIds :
         orders[o].customerId # rq.cust =>
           /\ orders'[o] = orders[o]
           /\ LinesOf(order_items', o) = LinesOf(order_items, o)
    /\ \A o \in OrderIds' \ OrderIds : orders'[o].customerId = rq.cust

\* C30: no request of a customer changes an order, or a line item of an
\* order, of another customer: create-order targets the caller's own customer
\* whatever customerId the body carries, and the picking-status update of a
\* line of another customer's order is refused.
C30_CustomersChangeOnlyOwnOrders == [][C30_Step]_vars

====
